---------------------------- MODULE Spec2Model ----------------------------
(***************************************************************************)
(* A model of libslack's coprocess module (coproc.c): coproc_open,         *)
(* coproc_close, coproc_pty_open, coproc_pty_close, the child branch that  *)
(* wires the transport to descriptors 0, 1 and 2, and the processes that   *)
(* run as coprocesses.  The parent is one sequential caller; every child   *)
(* is a process of its own that the kernel schedules independently.        *)
(***************************************************************************)
EXTENDS Integers, Sequences, FiniteSets, TLC

(***************************************************************************)
(* Bounds of the model.                                                    *)
(***************************************************************************)
MaxFd == 8          \* descriptors are 0..MaxFd (RLIMIT_NOFILE - 1)
PipeCap == 1        \* bytes a pipe buffers before a writer blocks
MaxHandles == 2     \* handle variables (pid, to, from, masterfd) of the caller
MaxPath == 3        \* characters in the value of PATH
MaxSent == 3        \* bytes an echo caller writes to a coprocess

FD == 0..MaxFd
H == 1..MaxHandles

\* the processes that call daemon_init
MaxProcs == 3
DP == 1..MaxProcs

\* the signal numbers 0 .. SIG_MAX - 1, and how often a signal arrives between
\* two resets of its count
SIG_MAX == 2
MaxReceipts == 2
Signals == 0..(SIG_MAX - 1)

\* a handler is SIG_DFL (a null pointer, as in static storage), SIG_IGN or a
\* function of the client
SIG_DFL == "SIG_DFL"
SIG_IGN == "SIG_IGN"
ClientHandler == "client"

(***************************************************************************)
(* Program constants.                                                      *)
(***************************************************************************)
RD == 0
WR == 1
STDIN_FILENO == 0
STDOUT_FILENO == 1
STDERR_FILENO == 2
EXIT_FAILURE == 1
EINVAL == "EINVAL"
ECHILD == "ECHILD"
EMFILE == "EMFILE"
EAGAIN == "EAGAIN"
NOERR == "none"

SHELL_META_CHARACTERS ==
    {"|", "&", ";", "(", ")", "<", ">", "[", "]", "{", "}", "$", "`", "'",
     "~", "\"", "\\", "*", "?", " ", "\t", "\r", "\n"}

\* The wait status of a process that called _exit(code): W_EXITCODE(code, 0).
ExitStatus(code) == code * 256
\* The wait status of a process that a signal terminated.
SignalStatus(sig) == sig
\* A process that writes to a pipe without a reader is terminated by SIGPIPE.
SigPipeStatus == SignalStatus(13)
\* A process that reads or writes outside its memory is terminated by SIGSEGV.
KilledStatus == SignalStatus(11)

(***************************************************************************)
(* Open file descriptions.  A descriptor table maps each descriptor to the *)
(* description it refers to: an end of the pipe p of handle h, the         *)
(* master or subordinate side of the pseudo terminal of h, a file the      *)
(* caller had open before (TTY), or nothing (NONE).                        *)
(***************************************************************************)
NONE == <<0, "none", "none">>
TTY == <<0, "file", "file">>
End(h, p, e) == <<h, p, e>>

Free(tab) == {fd \in FD : tab[fd] = NONE}
LowestFree(tab) == CHOOSE fd \in Free(tab) : \A g \in Free(tab) : fd <= g

\* close(fd) on a descriptor table; close(-1) fails with EBADF and changes nothing
Close(tab, fd) == IF fd \in FD THEN [tab EXCEPT ![fd] = NONE] ELSE tab

\* dup2(old, new) on a descriptor table (old is open)
Dup2(tab, old, new) == [tab EXCEPT ![new] = tab[old]]

\* pipe(): the two lowest free descriptors, read end first
PipeFds(tab) ==
    LET r == LowestFree(tab)
        w == LowestFree([tab EXCEPT ![r] = TTY])
    IN  <<r, w>>

\* the element of the C array int x[2] at index i (RD or WR)
At(pair, i) == pair[i + 1]

\* strcspn(s, reject): the length of the longest prefix of s without a reject character
Strcspn(s, reject) ==
    IF \E i \in 1..Len(s) : s[i] \in reject
    THEN (CHOOSE i \in 1..Len(s) : s[i] \in reject /\ \A j \in 1..(i - 1) : s[j] \notin reject) - 1
    ELSE Len(s)

\* has_meta = (cmd[strcspn(cmd, SHELL_META_CHARACTERS)] != '\0')
HasMeta(cmd) == Strcspn(cmd, SHELL_META_CHARACTERS) < Len(cmd)

(***************************************************************************)
(* The commands the caller passes, as strings of characters, and the       *)
(* argument records of the two open functions.  A field xNN says that the  *)
(* pointer x is not null.                                                  *)
(***************************************************************************)
Cmds == {<<"c">>, <<"/", "c">>, <<"c", "|", "c">>}

NoArg ==
    [api |-> "none", toNN |-> TRUE, fromNN |-> TRUE, cmdNN |-> TRUE, cmd |-> <<>>,
     argvNN |-> TRUE, nameNN |-> TRUE, size |-> 0]

\* coproc_open(&to, &from, cmd, argv, envv): at most one of the pointers is null
PipeArgs ==
    {[NoArg EXCEPT !.api = "pipe", !.cmd = c, !.argvNN = v] : c \in Cmds, v \in BOOLEAN}
    \cup {[NoArg EXCEPT !.api = "pipe", !.cmd = <<"c">>, !.toNN = FALSE],
          [NoArg EXCEPT !.api = "pipe", !.cmd = <<"c">>, !.fromNN = FALSE],
          [NoArg EXCEPT !.api = "pipe", !.cmdNN = FALSE]}

\* coproc_pty_open(&masterfd, slavename, slavenamesize, NULL, NULL, cmd, argv, envv);
\* the field toNN stands for masterfd
PtyArgs ==
    {[NoArg EXCEPT !.api = "pty", !.cmd = c, !.argvNN = v, !.size = 64] :
        c \in {<<"c">>, <<"c", "|", "c">>}, v \in BOOLEAN}
    \cup {[NoArg EXCEPT !.api = "pty", !.cmd = <<"c">>, !.size = 63],
          [NoArg EXCEPT !.api = "pty", !.cmd = <<"c">>, !.size = 64, !.toNN = FALSE],
          [NoArg EXCEPT !.api = "pty", !.cmd = <<"c">>, !.size = 64, !.nameNN = FALSE],
          [NoArg EXCEPT !.api = "pty", !.cmdNN = FALSE, !.size = 64]}

(***************************************************************************)
(* State.                                                                  *)
(***************************************************************************)
VARIABLES
    pc,         \* where the caller is: "idle" or a step of the function it is in
    cur,        \* the handle the function in progress was called for
    arg,        \* the arguments of the open function in progress
    has_meta,   \* local of coproc_open and coproc_pty_open
    to_pipe,    \* local of coproc_open: the descriptors of the inbound pipe
    from_pipe,  \* local of coproc_open: the descriptors of the outbound pipe
    ret,        \* the value the function in progress returns
    errno,      \* errno of the caller
    fds,        \* the descriptor table of the caller's process
    pid,        \* caller's variables, one set for each handle: pid_t pid
    to,         \*     int to
    from,       \*     int from
    masterfd,   \*     int masterfd
    api,        \*     the function the handle was opened with
    child,      \* the child process of each handle
    buf,        \* the bytes buffered in each pipe of each handle
    entry,      \* history: fds, to[cur] and from[cur] when the function in progress was called
    made,       \* history: what the function in progress has created so far
    closelog,   \* history: the close() calls the close functions made for each handle since it was opened
    fresh,      \* history: the handle is open and the caller has done nothing with it since
    waited      \* history: what waitpid did in the close function in progress

caller == <<pid, to, from, masterfd, api>>
locals == <<cur, arg, has_meta, to_pipe, from_pipe, ret, errno>>
history == <<entry, made, closelog, fresh, waited>>

VARIABLES
    sent,       \* history: the bytes an echo caller wrote to *to of each handle since it was opened
    rcvd,       \* history: what an echo caller read from *from of each handle since it was opened
    released    \* history: the results of the pty_release calls for each handle since it was opened

ghost == <<sent, rcvd, released>>

\* the bytes a caller writes
Bytes == {"a", "b"}
vars == <<pc, locals, fds, caller, child, buf, history, ghost>>

\* nothing read: no data, no end-of-stream; at end-of-stream the caller notes
\* whether *to was closed and what the child had come to
NoRcvd == [data |-> <<>>, eof |-> FALSE, toclosed |-> FALSE, child |-> "none", image |-> "none"]

\* the histories of handle h start again when h is opened
ResetGhost(h) ==
    /\ sent' = [sent EXCEPT ![h] = <<>>]
    /\ rcvd' = [rcvd EXCEPT ![h] = NoRcvd]
    /\ released' = [released EXCEPT ![h] = <<>>]

\* One call of do_exec, followed statement by statement.
VARIABLES
    x_pc,       \* the position in do_exec
    x_meta,     \* parameter has_meta
    x_cmd,      \* parameter cmd: a string
    x_argv,     \* parameter argv: a pointer to a vector of strings
    x_envv,     \* parameter envv is not null
    x_env,      \* what getenv("PATH") returns: a pointer to a string
    x_euid,     \* what geteuid() returns
    x_path,     \* local path
    x_s,        \* local s: an index into path, 0 for a null pointer
    x_cmdbuf,   \* local cmdbuf
    x_errno,    \* errno of the child
    x_log,      \* history: the execve calls made so far
    x_heap      \* history: the calls of malloc and free made so far

doexec == <<x_pc, x_meta, x_cmd, x_argv, x_envv, x_env, x_euid, x_path, x_s, x_cmdbuf,
            x_errno, x_log, x_heap>>

\* a pointer: null, or the address of the value v
Null == [null |-> TRUE, v |-> <<>>]
Ptr(v) == [null |-> FALSE, v |-> v]

\* no call of do_exec is followed
NoDoExec ==
    /\ x_pc = "none"
    /\ x_meta = FALSE
    /\ x_cmd = <<>>
    /\ x_argv = Null
    /\ x_envv = FALSE
    /\ x_env = Null
    /\ x_euid = 0
    /\ x_path = <<>>
    /\ x_s = 0
    /\ x_cmdbuf = <<>>
    /\ x_errno = NOERR
    /\ x_log = <<>>
    /\ x_heap = <<>>

\* The processes that call daemon_init with the same name, and the pidfile.
\* A file is known by the process that created it.
VARIABLES
    d_pc,       \* the position of each process
    d_fd,       \* local pid_fd of each process: the file it has open, 0 for none
    d_pidfile,  \* g.pidfile of each process is not null
    d_path,     \* the file the path of the pidfile names, 0 for none
    d_content,  \* the bytes of each file
    d_lock      \* the process that holds the write lock on each file, 0 for none

daemon == <<d_pc, d_fd, d_pidfile, d_path, d_content, d_lock>>

\* no process has called daemon_init
NoDaemon ==
    /\ d_pc = [p \in DP |-> "none"]
    /\ d_fd = [p \in DP |-> 0]
    /\ d_pidfile = [p \in DP |-> FALSE]
    /\ d_path = 0
    /\ d_content = [i \in DP |-> <<>>]
    /\ d_lock = [i \in DP |-> 0]

\* The tables of the sig module, the position of the thread in
\* signal_handle_all and signal_handle, and the signals of the process.
VARIABLES
    g_handler,  \* g_handler[signo].handler
    g_mask,     \* g_handler[signo].action->sa_mask
    g_received, \* g_received[signo]
    s_pc,       \* the position in signal_handle_all and signal_handle
    s_signo,    \* parameter signo of signal_handle, local signo of signal_handle_all
    s_via,      \* who called signal_handle: "all" for signal_handle_all, "one"
    s_mask,     \* the signals that are blocked
    s_pending,  \* the signals that were sent while blocked
    s_ret,      \* what the last call that returned has returned
    s_errno,    \* errno
    s_oob,      \* history: the tables that were accessed outside their bounds
    s_tested,   \* history: what the test in the loop found for each signal
    s_calls,    \* history: how often each handler was invoked in this pass
    s_since     \* history: the receipts of each signal since its count was reset

sigs == <<g_handler, g_mask, g_received, s_pc, s_signo, s_via, s_mask, s_pending, s_ret,
          s_errno, s_oob, s_tested, s_calls, s_since>>

\* static storage: no handler, nothing received
NoSig ==
    /\ g_handler = [signo \in Signals |-> SIG_DFL]
    /\ g_mask = [signo \in Signals |-> {}]
    /\ g_received = [signo \in Signals |-> 0]
    /\ s_pc = "idle"
    /\ s_signo = 0
    /\ s_via = "all"
    /\ s_mask = {}
    /\ s_pending = {}
    /\ s_ret = 0
    /\ s_errno = NOERR
    /\ s_oob = {}
    /\ s_tested = [signo \in Signals |-> "no"]
    /\ s_calls = [signo \in Signals |-> 0]
    /\ s_since = [signo \in Signals |-> 0]

\* The prop module: the properties files, the layers in memory and the calls
\* of the client.
VARIABLES
    p_files,    \* the four properties files when the program starts
    p_disk,     \* the user-defined, program-specific file as it is now
    p_prog,     \* prog_name() is not null
    p_home,     \* user_home() is not null
    p_init,     \* g.init
    p_prop,     \* g.prop: the maps from the top level down the defaults
    p_dirty,    \* g.dirty
    p_call,     \* the last call of the client: function and name
    p_ret,      \* what it returned, for a function that returns a value
    p_rc,       \* what it returned, for a function that returns an int
                \* (of p_ret and p_rc, the one the call does not give is reset)
    p_loads,    \* history: how often prop_init has loaded the layers
    p_last,     \* history: the last prop_set or prop_unset of each name
    p_changed,  \* history: a property was added, changed or removed since
                \* loading or the last successful save
    p_wrote     \* history: the call was a prop_save that opened the file for writing

props == <<p_files, p_disk, p_prog, p_home, p_init, p_prop, p_dirty, p_call, p_ret, p_rc,
           p_loads, p_last, p_changed, p_wrote>>

\* the names and values of properties in the model; NULL is no value
Names == {"key", "other", "save"}
NULL == "NULL"
Layers == {"system", "user", "system.prog", "user.prog"}
Values == {"v", "false"} \cup Layers

\* a map that holds nothing, and no file
NoMap == [name \in Names |-> NULL]
NoFile == [exists |-> FALSE, map |-> NoMap]
FileOf(map) == [exists |-> TRUE, map |-> map]

\* g = { 0, NULL, NULL, 0, NULL }
NoProp ==
    /\ p_files = [layer \in Layers |-> NoFile]
    /\ p_disk = NoFile
    /\ p_prog = FALSE
    /\ p_home = FALSE
    /\ p_init = FALSE
    /\ p_prop = <<>>
    /\ p_dirty = FALSE
    /\ p_call = <<"none", "">>
    /\ p_ret = NULL
    /\ p_rc = 0
    /\ p_loads = 0
    /\ p_last = [name \in Names |-> "none"]
    /\ p_changed = FALSE
    /\ p_wrote = FALSE

NoTab == [fd \in FD |-> NONE]
NoPair == <<-1, -1>>

NoChild ==
    [st |-> "none", via |-> "none", tab |-> NoTab, to_pipe |-> NoPair, from_pipe |-> NoPair,
     has_meta |-> FALSE, dupfailed |-> FALSE, execs |-> 0, image |-> "none",
     hold |-> <<>>, exit |-> 0]

NoEntry == [fds |-> NoTab, to |-> -1, from |-> -1, masterfd |-> -1, fresh |-> FALSE]
EntryOf(h) ==
    [fds |-> fds, to |-> to[h], from |-> from[h], masterfd |-> masterfd[h], fresh |-> fresh[h]]
NotWaited == <<"none", 0>>

\* The caller starts with any of the descriptors 0, 1 and 2 open and nothing else.
InitCaller ==
    /\ pc = "idle"
    /\ cur = 1
    /\ arg = NoArg
    /\ has_meta = FALSE
    /\ to_pipe = NoPair
    /\ from_pipe = NoPair
    /\ ret = 0
    /\ errno = NOERR
    /\ \E S \in SUBSET {STDIN_FILENO, STDOUT_FILENO, STDERR_FILENO} :
            fds = [fd \in FD |-> IF fd \in S THEN TTY ELSE NONE]
    /\ pid = [h \in H |-> -1]
    /\ to = [h \in H |-> -1]
    /\ from = [h \in H |-> -1]
    /\ masterfd = [h \in H |-> -1]
    /\ api = [h \in H |-> "none"]
    /\ child = [h \in H |-> NoChild]
    /\ buf = [h \in H |-> [to |-> <<>>, from |-> <<>>]]
    /\ entry = NoEntry
    /\ made = {}
    /\ closelog = [h \in H |-> <<>>]
    /\ sent = [h \in H |-> <<>>]
    /\ rcvd = [h \in H |-> NoRcvd]
    /\ released = [h \in H |-> <<>>]
    /\ fresh = [h \in H |-> FALSE]
    /\ waited = NotWaited

Init == InitCaller /\ NoDoExec /\ NoDaemon /\ NoSig /\ NoProp

\* the process id of the child of handle h
PidOf(h) == h

\* some process holds descriptor description e open
Holds(e) ==
    \/ \E fd \in FD : fds[fd] = e
    \/ \E k \in H, fd \in FD : child[k].tab[fd] = e


\* The caller uses the variables of handle h for a new coprocess only when the
\* coprocess they were for is gone and no process has a descriptor of its pipes
\* or its terminal any more (a pipe is named by its handle).
Unused(h) ==
    /\ child[h].st = "none" /\ to[h] = -1 /\ from[h] = -1 /\ masterfd[h] = -1
    /\ \A fd \in FD : fds[fd][1] # h /\ \A k \in H : child[k].tab[fd][1] # h

\* A pipe that no process can read any more holds no data: the buffers b with
\* the data of such pipes discarded, for parent table tab and children ch.
Drain(b, tab, ch) ==
    [h \in H |-> [p \in {"to", "from"} |->
        IF \/ \E fd \in FD : tab[fd] = End(h, p, "RD")
           \/ \E k \in H, fd \in FD : ch[k].tab[fd] = End(h, p, "RD")
        THEN b[h][p] ELSE <<>>]]

(***************************************************************************)
(* coproc_open                                                             *)
(***************************************************************************)

\* if (!to || !from || !cmd) return set_errno(EINVAL);
NullArgument(a) == ~a.toNN \/ ~a.fromNN \/ ~a.cmdNN

\* Mutant: the check of a command without metacharacters is missing.
MetaArgvMismatch_OnlyMeta(meta, a) == meta /\ a.argvNN

\* if ((has_meta && argv) || (!has_meta && !argv)) return set_errno(EINVAL);
MetaArgvMismatch(meta, a) == (meta /\ a.argvNN) \/ (~meta /\ ~a.argvNN)

\* the descriptor table after pipe() has made the pipe p of handle h at descriptors pair
WithPipe(tab, h, p, pair) ==
    [tab EXCEPT ![At(pair, RD)] = End(h, p, "RD"), ![At(pair, WR)] = End(h, p, "WR")]

\* pipe() succeeds only when two descriptors are free (EMFILE otherwise)
CanPipe(tab) == Cardinality(Free(tab)) >= 2

\* close(to_pipe[RD]); close(to_pipe[WR]);
CloseToPipe(tab, tp) == Close(Close(tab, At(tp, RD)), At(tp, WR))

\* Mutant: from_pipe[RD] is closed twice and from_pipe[WR] is left open.
CloseBothPipes_Leak(tab, tp, fp) ==
    Close(Close(Close(Close(tab, At(tp, RD)), At(tp, WR)), At(fp, RD)), At(fp, RD))

\* close(to_pipe[RD]); close(to_pipe[WR]); close(from_pipe[RD]); close(from_pipe[WR]);
CloseBothPipes(tab, tp, fp) ==
    Close(Close(Close(Close(tab, At(tp, RD)), At(tp, WR)), At(fp, RD)), At(fp, WR))

\* The outcomes of coproc_open up to and including fork(), in the caller's
\* process, for the descriptor table tab: [stop, fds, to_pipe, from_pipe, made]
\* where stop is the step that failed, or "none".
\*   if (pipe(to_pipe) == -1) return -1;
\*   if (pipe(from_pipe) == -1) { close(to_pipe[RD]); close(to_pipe[WR]); return -1; }
\*   switch (pid = fork()) { case -1: close all four; return -1; ...
OpenOutcomes(tab, h) ==
    LET tp == PipeFds(tab)
        t1 == WithPipe(tab, h, "to", tp)
        fp == PipeFds(t1)
        t2 == WithPipe(t1, h, "from", fp)
        none == [stop |-> "pipe1", fds |-> tab, to_pipe |-> NoPair, from_pipe |-> NoPair,
                 made |-> {}]
    IN  {none}
        \cup (IF ~CanPipe(tab) THEN {} ELSE
                {[none EXCEPT !.stop = "pipe2", !.fds = CloseToPipe(t1, tp), !.to_pipe = tp,
                              !.made = {"to_pipe"}]}
                \cup (IF ~CanPipe(t1) THEN {} ELSE
                        {[stop |-> "fork", fds |-> CloseBothPipes(t2, tp, fp), to_pipe |-> tp,
                          from_pipe |-> fp, made |-> {"to_pipe", "from_pipe"}],
                         [stop |-> "none", fds |-> t2, to_pipe |-> tp, from_pipe |-> fp,
                          made |-> {"to_pipe", "from_pipe", "child"}]}))

\* what errno is after the step that failed
ErrnoOf(stop) == IF stop = "fork" THEN EAGAIN ELSE EMFILE

\* The caller calls coproc_open(&to[h], &from[h], cmd, argv, envv) for a handle
\* that is not in use.  The function checks its arguments, makes the two pipes
\* and forks; pipe() and fork() can fail.  After a fork there is a child, a copy
\* of the caller with its descriptor table and its locals, at the start of case 0.
coproc_open_fork(h, a) ==
    /\ pc = "idle"
    /\ Unused(h)
    /\ cur' = h
    /\ arg' = a
    /\ entry' = EntryOf(h)
    /\ IF NullArgument(a) \/ MetaArgvMismatch(HasMeta(a.cmd), a)
       THEN /\ ret' = -1 /\ errno' = EINVAL /\ pc' = "o_ret"
            /\ has_meta' = (~NullArgument(a) /\ HasMeta(a.cmd))
            /\ made' = {}
            /\ UNCHANGED <<to_pipe, from_pipe, fds, child, buf>>
       ELSE /\ has_meta' = HasMeta(a.cmd)
            /\ \E o \in OpenOutcomes(fds, h) :
                /\ fds' = o.fds
                /\ to_pipe' = o.to_pipe
                /\ from_pipe' = o.from_pipe
                /\ made' = o.made
                /\ IF o.stop = "none"
                   THEN /\ child' = [child EXCEPT ![h] =
                               [NoChild EXCEPT !.st = "forked", !.via = "pipe", !.image = "caller",
                                               !.tab = o.fds, !.to_pipe = o.to_pipe,
                                               !.from_pipe = o.from_pipe,
                                               !.has_meta = HasMeta(a.cmd)]]
                        /\ buf' = [buf EXCEPT ![h] = [to |-> <<>>, from |-> <<>>]]
                        /\ pc' = "o_parent"
                        /\ UNCHANGED <<ret, errno>>
                   ELSE /\ ret' = -1 /\ errno' = ErrnoOf(o.stop) /\ pc' = "o_ret"
                        /\ UNCHANGED <<child, buf>>
    /\ closelog' = [closelog EXCEPT ![h] = <<>>]
    /\ UNCHANGED <<caller, fresh, waited>>
    /\ UNCHANGED <<doexec, daemon, sigs, props>>
    /\ ResetGhost(h)

\* Mutant: the caller closes the write ends of both pipes.
ParentCloseUnused_WriteEnds(tab, tp, fp) == Close(Close(tab, At(tp, WR)), At(fp, WR))

\* default: close(to_pipe[RD]); close(from_pipe[WR]);
ParentCloseUnused(tab, tp, fp) == Close(Close(tab, At(tp, RD)), At(fp, WR))

\* Mutant: the caller looks at the child before it returns and reports a child
\* that has ended already as a failure.
ParentResult_ChildChecked(h) == IF child[h].st = "exited" THEN -1 ELSE PidOf(h)

\* default: ... return pid;
ParentResult(h) == PidOf(h)

\* default: ... *to = to_pipe[WR]; *from = from_pipe[RD]; return pid;
coproc_open_parent ==
    /\ pc = "o_parent"
    /\ fds' = ParentCloseUnused(fds, to_pipe, from_pipe)
    /\ to' = [to EXCEPT ![cur] = At(to_pipe, WR)]
    /\ from' = [from EXCEPT ![cur] = At(from_pipe, RD)]
    /\ ret' = ParentResult(cur) /\ pc' = "o_ret"
    /\ UNCHANGED <<cur, arg, has_meta, to_pipe, from_pipe, errno, pid, masterfd, api,
                   child, history>>
    /\ buf' = Drain(buf, fds', child')
    /\ UNCHANGED <<doexec, daemon, sigs, props>>
    /\ UNCHANGED ghost

\* The open function returns: the caller stores the result in pid and goes on.
open_return ==
    /\ pc = "o_ret"
    /\ pid' = [pid EXCEPT ![cur] = ret]
    /\ api' = [api EXCEPT ![cur] = IF ret = -1 THEN "none" ELSE arg.api]
    /\ pc' = "idle"
    /\ arg' = NoArg /\ has_meta' = FALSE /\ to_pipe' = NoPair /\ from_pipe' = NoPair
    /\ ret' = 0 /\ errno' = NOERR
    /\ entry' = NoEntry /\ made' = {}
    /\ fresh' = [fresh EXCEPT ![cur] = (ret # -1)]
    /\ cur' = 1
    /\ UNCHANGED <<fds, to, from, masterfd, child, buf, closelog, waited>>
    /\ UNCHANGED <<doexec, daemon, sigs, props>>
    /\ UNCHANGED ghost

(***************************************************************************)
(* The child branch of coproc_open (case 0) and do_exec                    *)
(***************************************************************************)

\* Mutant: the test fd != target is missing, so that a pipe end that already is
\* at the target is closed after the dup2.
AttachStep_NoTest(r, fd, target, fails) ==
    IF r.failed THEN r
    ELSE IF fails THEN [r EXCEPT !.failed = TRUE]
    ELSE [r EXCEPT !.tab = Close(Dup2(r.tab, fd, target), fd)]

\* One dup2 step of the child: if (fd != target) { if (dup2(fd, target) == -1)
\* _exit(1); close(fd); }.  r is [failed, tab]; fails says that this dup2 fails.
AttachStep(r, fd, target, fails) ==
    IF r.failed \/ fd = target THEN r
    ELSE IF fails THEN [r EXCEPT !.failed = TRUE]
    ELSE [r EXCEPT !.tab = Close(Dup2(r.tab, fd, target), fd)]

\* case 0, up to do_exec: close(to_pipe[WR]); close(from_pipe[RD]); the inbound
\* read end to descriptor 0, the outbound write end to descriptor 1, descriptor 1
\* duplicated to descriptor 2.  failAt names the dup2 call that fails (0: none).
AttachPipes(tab, tp, fp, failAt) ==
    LET r0 == [failed |-> FALSE, tab |-> Close(Close(tab, At(tp, WR)), At(fp, RD))]
        r1 == AttachStep(r0, At(tp, RD), STDIN_FILENO, failAt = 1)
        r2 == AttachStep(r1, At(fp, WR), STDOUT_FILENO, failAt = 2)
    IN  IF r2.failed THEN r2
        ELSE IF failAt = 3 THEN [r2 EXCEPT !.failed = TRUE]
        ELSE [r2 EXCEPT !.tab = Dup2(r2.tab, STDOUT_FILENO, STDERR_FILENO)]

\* the process of handle h ends with the wait status s: its descriptors are closed
Exited(c, s) ==
    [c EXCEPT !.st = "exited", !.tab = NoTab, !.to_pipe = NoPair, !.from_pipe = NoPair,
              !.hold = <<>>, !.exit = s]

\* The child attaches the pipes to its standard descriptors; a dup2 that fails
\* ends it with _exit(1).
child_attach(h) ==
    /\ child[h].st = "forked"
    /\ \E failAt \in 0..3 :
        LET c == child[h]
            r == AttachPipes(c.tab, c.to_pipe, c.from_pipe, failAt)
        IN  child' = [child EXCEPT ![h] =
                IF r.failed
                THEN Exited([c EXCEPT !.dupfailed = TRUE], ExitStatus(1))
                ELSE [c EXCEPT !.st = "exec", !.tab = r.tab, !.to_pipe = NoPair,
                               !.from_pipe = NoPair]]
    /\ UNCHANGED <<pc, locals, fds, caller, history>>
    /\ buf' = Drain(buf, fds', child')
    /\ UNCHANGED <<doexec, daemon, sigs, props>>
    /\ UNCHANGED ghost

\* do_exec(has_meta, cmd, argv, envv); _exit(EXIT_FAILURE);
\* do_exec tries execve: when an attempt succeeds the process runs the new
\* image, and when do_exec returns the child ends with _exit(EXIT_FAILURE).
\* With an argv whose first element is null, new_shargv reads and writes
\* outside its arrays and the process can be killed there (see new_shargv).
child_do_exec(h) ==
    /\ child[h].st = "exec"
    /\ \/ child' = [child EXCEPT ![h] = [@ EXCEPT !.st = "running", !.execs = 1,
                                                  !.image = "program"]]
       \/ child' = [child EXCEPT ![h] =
                        Exited([@ EXCEPT !.execs = 1], ExitStatus(EXIT_FAILURE))]
       \/ /\ ~child[h].has_meta
          /\ child' = [child EXCEPT ![h] = Exited([@ EXCEPT !.execs = 1], KilledStatus)]
    /\ UNCHANGED <<pc, locals, fds, caller, history>>
    /\ buf' = Drain(buf, fds', child')
    /\ UNCHANGED <<doexec, daemon, sigs, props>>
    /\ UNCHANGED ghost

(***************************************************************************)
(* The coprocess: a filter such as cat.  It reads a byte from descriptor 0 *)
(* and writes it to descriptor 1; it ends when it reads end-of-stream and  *)
(* when a write fails.                                                     *)
(***************************************************************************)
Stdin(h) == child[h].tab[STDIN_FILENO]
Stdout(h) == child[h].tab[STDOUT_FILENO]
IsPipeEnd(e, which) == e[1] \in H /\ e[2] \in {"to", "from"} /\ e[3] = which
IsSlave(e) == e[1] \in H /\ e[2] = "pty" /\ e[3] = "slave"

\* read(0) returns a byte of the pipe
prog_read(h) ==
    /\ child[h].st = "running" /\ child[h].hold = <<>>
    /\ IsPipeEnd(Stdin(h), "RD")
    /\ LET g == Stdin(h)[1]
           p == Stdin(h)[2]
       IN  /\ buf[g][p] # <<>>
           /\ buf' = [buf EXCEPT ![g][p] = Tail(@)]
           /\ child' = [child EXCEPT ![h].hold = <<Head(buf[g][p])>>]
    /\ UNCHANGED <<pc, locals, fds, caller, history>>
    /\ UNCHANGED <<doexec, daemon, sigs, props>>
    /\ UNCHANGED ghost

\* read(0) returns end-of-stream: the pipe is empty and no process has its write
\* end open (for a terminal: no process has the master side open); exit(0)
prog_eof(h) ==
    /\ child[h].st = "running" /\ child[h].hold = <<>>
    /\ \/ /\ IsPipeEnd(Stdin(h), "RD")
          /\ buf[Stdin(h)[1]][Stdin(h)[2]] = <<>>
          /\ ~Holds(End(Stdin(h)[1], Stdin(h)[2], "WR"))
       \/ /\ IsSlave(Stdin(h))
          /\ ~Holds(End(Stdin(h)[1], "pty", "master"))
    /\ child' = [child EXCEPT ![h] = Exited(@, ExitStatus(0))]
    /\ UNCHANGED <<pc, locals, fds, caller, history>>
    /\ buf' = Drain(buf, fds', child')
    /\ UNCHANGED <<doexec, daemon, sigs, props>>
    /\ UNCHANGED ghost

\* write(1) puts the byte into the pipe; it blocks while the pipe is full
prog_write(h) ==
    /\ child[h].st = "running" /\ child[h].hold # <<>>
    /\ IsPipeEnd(Stdout(h), "WR")
    /\ LET g == Stdout(h)[1]
           p == Stdout(h)[2]
       IN  /\ Holds(End(g, p, "RD"))
           /\ Len(buf[g][p]) < PipeCap
           /\ buf' = [buf EXCEPT ![g][p] = @ \o child[h].hold]
    /\ child' = [child EXCEPT ![h].hold = <<>>]
    /\ UNCHANGED <<pc, locals, fds, caller, history>>
    /\ UNCHANGED <<doexec, daemon, sigs, props>>
    /\ UNCHANGED ghost

\* write(1) fails, no process has the read end open: SIGPIPE ends the process
prog_sigpipe(h) ==
    /\ child[h].st = "running" /\ child[h].hold # <<>>
    /\ IsPipeEnd(Stdout(h), "WR")
    /\ ~Holds(End(Stdout(h)[1], Stdout(h)[2], "RD"))
    /\ child' = [child EXCEPT ![h] = Exited(@, SigPipeStatus)]
    /\ UNCHANGED <<pc, locals, fds, caller, history>>
    /\ buf' = Drain(buf, fds', child')
    /\ UNCHANGED <<doexec, daemon, sigs, props>>
    /\ UNCHANGED ghost

(***************************************************************************)
(* The caller between the calls: it writes to *to, reads from *from, and   *)
(* closes a descriptor itself, setting the variable to -1.                 *)
(***************************************************************************)
\* write(to, &b, 1): the byte goes into the pipe; the call blocks while the
\* pipe is full
WriteTo(h, b) ==
    /\ pc = "idle" /\ to[h] # -1
    /\ IsPipeEnd(fds[to[h]], "WR")
    /\ LET g == fds[to[h]][1]
           p == fds[to[h]][2]
       IN  /\ Holds(End(g, p, "RD"))
           /\ Len(buf[g][p]) < PipeCap
           /\ buf' = [buf EXCEPT ![g][p] = Append(@, b)]
    /\ fresh' = [fresh EXCEPT ![h] = FALSE]
    /\ UNCHANGED <<pc, locals, fds, caller, child, entry, made, closelog, waited>>
    /\ UNCHANGED <<doexec, daemon, sigs, props>>

\* read(from, &b, 1) returns the first byte of the pipe
ReadFrom(h) ==
    /\ pc = "idle" /\ from[h] # -1
    /\ IsPipeEnd(fds[from[h]], "RD")
    /\ LET g == fds[from[h]][1]
           p == fds[from[h]][2]
       IN  /\ buf[g][p] # <<>>
           /\ buf' = [buf EXCEPT ![g][p] = Tail(@)]
    /\ fresh' = [fresh EXCEPT ![h] = FALSE]
    /\ UNCHANGED <<pc, locals, fds, caller, child, entry, made, closelog, waited>>
    /\ UNCHANGED <<doexec, daemon, sigs, props>>

\* the byte read(from, &b, 1) returns
NextByte(h) == Head(buf[fds[from[h]][1]][fds[from[h]][2]])

\* a caller that does not look at the data
caller_write(h) ==
    /\ WriteTo(h, "a")
    /\ UNCHANGED ghost

caller_read(h) ==
    /\ ReadFrom(h)
    /\ UNCHANGED ghost

\* a caller that keeps what it wrote and what it read, as the echo tests do:
\* it writes at most MaxSent bytes to a coprocess
echo_write(h) ==
    /\ Len(sent[h]) < MaxSent
    /\ \E b \in Bytes :
        /\ WriteTo(h, b)
        /\ sent' = [sent EXCEPT ![h] = Append(@, b)]
    /\ UNCHANGED <<rcvd, released>>

echo_read(h) ==
    /\ ReadFrom(h)
    /\ rcvd' = [rcvd EXCEPT ![h].data = Append(@, NextByte(h))]
    /\ UNCHANGED <<sent, released>>

\* read(from, &b, 1) returns 0: the pipe is empty and no process has its write
\* end open
echo_eof(h) ==
    /\ pc = "idle" /\ from[h] # -1
    /\ IsPipeEnd(fds[from[h]], "RD")
    /\ buf[fds[from[h]][1]][fds[from[h]][2]] = <<>>
    /\ ~Holds(End(fds[from[h]][1], fds[from[h]][2], "WR"))
    /\ ~rcvd[h].eof
    /\ rcvd' = [rcvd EXCEPT ![h].eof = TRUE, ![h].toclosed = (to[h] = -1),
                            ![h].child = child[h].st, ![h].image = child[h].image]
    /\ fresh' = [fresh EXCEPT ![h] = FALSE]
    /\ UNCHANGED <<pc, locals, fds, caller, child, buf, entry, made, closelog, waited>>
    /\ UNCHANGED <<sent, released>>
    /\ UNCHANGED <<doexec, daemon, sigs, props>>

\* close(to); to = -1;
caller_close_to(h) ==
    /\ pc = "idle" /\ to[h] # -1
    /\ fds' = Close(fds, to[h])
    /\ to' = [to EXCEPT ![h] = -1]
    /\ fresh' = [fresh EXCEPT ![h] = FALSE]
    /\ UNCHANGED <<pc, locals, pid, from, masterfd, api, child, buf, entry, made, closelog, waited>>
    /\ UNCHANGED <<doexec, daemon, sigs, props>>
    /\ UNCHANGED ghost

\* close(from); from = -1;
caller_close_from(h) ==
    /\ pc = "idle" /\ from[h] # -1
    /\ fds' = Close(fds, from[h])
    /\ from' = [from EXCEPT ![h] = -1]
    /\ fresh' = [fresh EXCEPT ![h] = FALSE]
    /\ UNCHANGED <<pc, locals, pid, to, masterfd, api, child, entry, made, closelog, waited>>
    /\ buf' = Drain(buf, fds', child')
    /\ UNCHANGED <<doexec, daemon, sigs, props>>
    /\ UNCHANGED ghost

(***************************************************************************)
(* coproc_close                                                            *)
(***************************************************************************)

\* The descriptor of handle h that the variable named role is for.
OwnEnd(h, role) ==
    CASE role = "to" -> End(h, "to", "WR")
      [] role = "from" -> End(h, "from", "RD")
      [] role = "master" -> End(h, "pty", "master")

\* the record of a call close(fd) that a close function makes for the variable
\* role of handle h: whether fd is an open descriptor of the handle
Closing(h, role, fd) == <<role, fd \in FD /\ fds[fd] = OwnEnd(h, role)>>

\* Mutant: coproc_close waits for the child before it closes *from.
AfterCloseTo_Wait == "c_wait"

\* the step of coproc_close that follows the closing of *to
AfterCloseTo == "c_from"

\* Mutant: the variable keeps the number of the descriptor that was closed.
MarkClosed_Keep(fd) == fd

\* *to = -1; the value a close function leaves in a variable whose descriptor
\* fd it has closed
MarkClosed(fd) == -1

\* The caller calls coproc_close(pid[h], &to[h], &from[h]):
\* if (to && *to != -1) { close(*to); *to = -1; }
coproc_close_to(h) ==
    /\ pc = "idle"
    /\ api[h] \in {"none", "pipe"}
    /\ cur' = h
    /\ entry' = EntryOf(h)
    /\ made' = {}
    /\ IF to[h] # -1
       THEN /\ fds' = Close(fds, to[h])
            /\ closelog' = [closelog EXCEPT ![h] = Append(@, Closing(h, "to", to[h]))]
            /\ to' = [to EXCEPT ![h] = MarkClosed(to[h])]
       ELSE UNCHANGED <<fds, closelog, to>>
    /\ pc' = AfterCloseTo
    /\ fresh' = [fresh EXCEPT ![h] = FALSE]
    /\ UNCHANGED <<arg, has_meta, to_pipe, from_pipe, ret, errno, pid, from, masterfd, api,
                   child, buf, waited>>
    /\ UNCHANGED <<doexec, daemon, sigs, props>>
    /\ UNCHANGED ghost

\* if (from && *from != -1) { close(*from); *from = -1; }
coproc_close_from ==
    /\ pc = "c_from"
    /\ IF from[cur] # -1
       THEN /\ fds' = Close(fds, from[cur])
            /\ closelog' = [closelog EXCEPT ![cur] = Append(@, Closing(cur, "from", from[cur]))]
            /\ from' = [from EXCEPT ![cur] = MarkClosed(from[cur])]
       ELSE UNCHANGED <<fds, closelog, from>>
    /\ pc' = "c_wait"
    /\ UNCHANGED <<locals, pid, to, masterfd, api, child, entry, made, fresh, waited>>
    /\ buf' = Drain(buf, fds', child')
    /\ UNCHANGED <<doexec, daemon, sigs, props>>
    /\ UNCHANGED ghost

\* Mutant: coproc_close returns 0 after a waitpid that succeeded.
StatusReturned_Zero(status) == 0

\* return status; after a waitpid that succeeded (status is what it stored)
StatusReturned(status) == status

\* Mutant: waitpid is called with WNOHANG, so that it returns 0 at once, with
\* status untouched, when the child has not ended.
WaitAndReturn_NoHang(h) ==
    \/ /\ pid[h] = -1
       /\ ret' = 0
       /\ waited' = <<"skipped", 0>>
       /\ UNCHANGED <<errno, child>>
    \/ /\ pid[h] # -1 /\ child[h].st = "none"
       /\ ret' = -1 /\ errno' = ECHILD
       /\ waited' = <<"failed", 0>>
       /\ UNCHANGED child
    \/ /\ pid[h] # -1 /\ child[h].st = "exited"
       /\ ret' = StatusReturned(child[h].exit)
       /\ waited' = <<"reaped", child[h].exit>>
       /\ child' = [child EXCEPT ![h] = NoChild]
       /\ UNCHANGED errno
    \/ /\ pid[h] # -1 /\ child[h].st \notin {"none", "exited"}
       /\ ret' = 0
       /\ waited' = <<"running", 0>>
       /\ UNCHANGED <<errno, child>>

\* if (pid != -1 && waitpid(pid, &status, 0) == -1) return -1; return status;
\* waitpid blocks until the child has ended, and fails with ECHILD when the
\* caller has no such child (any more).  Used by both close functions.
WaitAndReturn_Lenient(h) ==
    \/ /\ pid[h] = -1
       /\ ret' = 0
       /\ waited' = <<"skipped", 0>>
       /\ UNCHANGED <<errno, child>>
    \/ /\ pid[h] # -1 /\ child[h].st = "none"
       /\ ret' = 0
       /\ waited' = <<"failed", 0>>
       /\ UNCHANGED <<errno, child>>
    \/ /\ pid[h] # -1 /\ child[h].st = "exited"
       /\ ret' = StatusReturned(child[h].exit)
       /\ waited' = <<"reaped", child[h].exit>>
       /\ child' = [child EXCEPT ![h] = NoChild]
       /\ UNCHANGED errno

WaitAndReturn(h) ==
    \/ /\ pid[h] = -1
       /\ ret' = 0
       /\ waited' = <<"skipped", 0>>
       /\ UNCHANGED <<errno, child>>
    \/ /\ pid[h] # -1 /\ child[h].st = "none"
       /\ ret' = -1 /\ errno' = ECHILD
       /\ waited' = <<"failed", 0>>
       /\ UNCHANGED child
    \/ /\ pid[h] # -1 /\ child[h].st = "exited"
       /\ ret' = StatusReturned(child[h].exit)
       /\ waited' = <<"reaped", child[h].exit>>
       /\ child' = [child EXCEPT ![h] = NoChild]
       /\ UNCHANGED errno

coproc_close_wait ==
    /\ pc = "c_wait"
    /\ WaitAndReturn(cur)
    /\ pc' = "c_ret"
    /\ UNCHANGED <<cur, arg, has_meta, to_pipe, from_pipe, fds, caller, buf, entry, made,
                   closelog, fresh>>
    /\ UNCHANGED <<doexec, daemon, sigs, props>>
    /\ UNCHANGED ghost

\* The close function returns.
close_return ==
    /\ pc \in {"c_ret", "q_ret"}
    /\ pc' = "idle"
    /\ ret' = 0 /\ errno' = NOERR
    /\ entry' = NoEntry /\ made' = {} /\ waited' = NotWaited
    /\ cur' = 1
    /\ UNCHANGED <<arg, has_meta, to_pipe, from_pipe, fds, caller, child, buf, closelog, fresh>>
    /\ UNCHANGED <<doexec, daemon, sigs, props>>
    /\ UNCHANGED ghost

(***************************************************************************)
(* coproc_pty_open and coproc_pty_close                                    *)
(***************************************************************************)

\* Mutant: the size of the buffer for the name is not tested.
PtyBadArgument_NoSize(a) == ~a.toNN \/ ~a.nameNN \/ ~a.cmdNN

\* if (!masterfd || !slavename || slavenamesize < 64 || !cmd) return set_errno(EINVAL);
PtyBadArgument(a) == ~a.toNN \/ ~a.nameNN \/ a.size < 64 \/ ~a.cmdNN

coproc_pty_open_check(h, a) ==
    /\ pc = "idle"
    /\ Unused(h)
    /\ cur' = h
    /\ arg' = a
    /\ entry' = EntryOf(h)
    /\ made' = {}
    /\ IF PtyBadArgument(a)
       THEN /\ ret' = -1 /\ errno' = EINVAL /\ pc' = "o_ret"
            /\ UNCHANGED has_meta
       ELSE /\ has_meta' = HasMeta(a.cmd)
            /\ IF MetaArgvMismatch(HasMeta(a.cmd), a)
               THEN ret' = -1 /\ errno' = EINVAL /\ pc' = "o_ret"
               ELSE pc' = "p_fork" /\ UNCHANGED <<ret, errno>>
    /\ closelog' = [closelog EXCEPT ![h] = <<>>]
    /\ UNCHANGED <<to_pipe, from_pipe, fds, caller, child, buf, fresh, waited>>
    /\ UNCHANGED <<doexec, daemon, sigs, props>>
    /\ ResetGhost(h)

\* pty_fork() in the child: descriptors 0, 1 and 2 are the subordinate side of
\* the terminal of handle h and the master side is closed.
PtyChildTab(tab, h, m) ==
    [fd \in FD |-> IF fd \in {STDIN_FILENO, STDOUT_FILENO, STDERR_FILENO}
                   THEN End(h, "pty", "slave")
                   ELSE IF fd = m THEN NONE ELSE tab[fd]]

\* Mutant: the function returns 0 in the parent.
PtyParentResult_Zero(h) == 0

\* default: return pid;
PtyParentResult(h) == PidOf(h)

\* switch (pid = pty_fork(masterfd, slavename, ...)): case -1: return -1;
\* case 0: do_exec(...); _exit(EXIT_FAILURE); default: return pid;
coproc_pty_open_fork ==
    /\ pc = "p_fork"
    /\ \/ /\ Free(fds) # {}
          /\ LET m == LowestFree(fds)
             IN  /\ fds' = [fds EXCEPT ![m] = End(cur, "pty", "master")]
                 /\ masterfd' = [masterfd EXCEPT ![cur] = m]
                 /\ child' = [child EXCEPT ![cur] =
                        [NoChild EXCEPT !.st = "exec", !.via = "pty", !.image = "caller",
                                        !.tab = PtyChildTab(fds, cur, m),
                                        !.has_meta = has_meta]]
          /\ made' = made \cup {"pty", "child"}
          /\ ret' = PtyParentResult(cur) /\ pc' = "o_ret"
          /\ UNCHANGED errno
       \/ /\ ret' = -1 /\ errno' = EAGAIN /\ pc' = "o_ret"
          /\ UNCHANGED <<fds, masterfd, child, made>>
    /\ UNCHANGED <<cur, arg, has_meta, to_pipe, from_pipe, pid, to, from, api, buf, entry,
                   closelog, fresh, waited>>
    /\ UNCHANGED <<doexec, daemon, sigs, props>>
    /\ UNCHANGED ghost

\* what pty_release(slavename) returns: 0, or -1 when it could not give the
\* subordinate device back
pty_release_results == {0, -1}

\* The caller calls coproc_pty_close(pid[h], &masterfd[h], slavename):
\* if (masterfd && *masterfd != -1) { pty_release(slavename); close(*masterfd); *masterfd = -1; }
coproc_pty_close_master(h) ==
    /\ pc = "idle"
    /\ api[h] \in {"none", "pty"}
    /\ cur' = h
    /\ entry' = EntryOf(h)
    /\ made' = {}
    /\ IF masterfd[h] # -1
       THEN /\ \E r \in pty_release_results :
                    released' = [released EXCEPT ![h] = Append(@, r)]
            /\ fds' = Close(fds, masterfd[h])
            /\ closelog' = [closelog EXCEPT ![h] = Append(@, Closing(h, "master", masterfd[h]))]
            /\ masterfd' = [masterfd EXCEPT ![h] = MarkClosed(masterfd[h])]
       ELSE UNCHANGED <<fds, closelog, masterfd, released>>
    /\ pc' = "q_wait"
    /\ fresh' = [fresh EXCEPT ![h] = FALSE]
    /\ UNCHANGED <<arg, has_meta, to_pipe, from_pipe, ret, errno, pid, to, from, api,
                   child, buf, waited>>
    /\ UNCHANGED <<doexec, daemon, sigs, props>>
    /\ UNCHANGED <<sent, rcvd>>

\* if (pid != -1 && waitpid(pid, &status, 0) == -1) return -1; return status;
coproc_pty_close_wait ==
    /\ pc = "q_wait"
    /\ WaitAndReturn(cur)
    /\ pc' = "q_ret"
    /\ UNCHANGED <<cur, arg, has_meta, to_pipe, from_pipe, fds, caller, buf, entry, made,
                   closelog, fresh>>
    /\ UNCHANGED <<doexec, daemon, sigs, props>>
    /\ UNCHANGED ghost

\* close(masterfd); masterfd = -1;
caller_close_master(h) ==
    /\ pc = "idle" /\ masterfd[h] # -1
    /\ fds' = Close(fds, masterfd[h])
    /\ masterfd' = [masterfd EXCEPT ![h] = -1]
    /\ fresh' = [fresh EXCEPT ![h] = FALSE]
    /\ UNCHANGED <<pc, locals, pid, to, from, api, child, buf, entry, made, closelog, waited>>
    /\ UNCHANGED <<doexec, daemon, sigs, props>>
    /\ UNCHANGED ghost

(***************************************************************************)
(* do_exec and new_shargv.  Strings are sequences of characters; an        *)
(* argument vector is a sequence of strings.  Each execve call is one step *)
(* whose result is drawn from the results the kernel can give for the file *)
(***************************************************************************)
BinSh == <<"/", "b", "i", "n", "/", "s", "h">>
Sh == <<"s", "h">>
DashC == <<"-", "c">>
PATH_SEP == "/"
PATH_LIST_SEP == ":"
PATH_SEP_STR == <<"/">>
DEFAULT_ROOT_PATH == <<"/", "b", "i", "n", ":", "/", "u", "s", "r", "/", "b", "i", "n">>
DEFAULT_USER_PATH == <<":", "/", "b", "i", "n", ":", "/", "u", "s", "r", "/", "b", "i", "n">>
CMDBUF_SIZE == 512

ENOEXEC == "ENOEXEC"
EACCES == "EACCES"
ENOENT == "ENOENT"
\* what an execve call can give: "ok" when the image is replaced (the call
\* does not return), or the errno of its failure
ExecveResults == {"ok", EACCES, ENOEXEC, ENOENT}

\* the values of PATH: every string of at most MaxPath characters over PathChars
PathChars == {"a", PATH_LIST_SEP}
PathStrings == UNION {[1..n -> PathChars] : n \in 0..MaxPath}

\* a command one byte shorter than the longest that fits cmdbuf behind "a/"
LongCmd == [i \in 1..(CMDBUF_SIZE - 3) |-> "c"]
ExecCmds == Cmds \cup {LongCmd}

\* the argument vectors of the caller: none, argv[0] only, argv[0] and two more
Argvs == {<<>>, << <<"x">> >>, << <<"x">>, <<"a">>, <<"b">> >>}

\* what the memory behind the terminator of argv can hold up to the next null
\* pointer
Beyond == {<<>>, << <<"?">> >>}

\* strchr(str + at - 1, c) as an index into str, 0 when there is none
Strchr(str, at, c) ==
    IF \E i \in at..Len(str) : str[i] = c
    THEN CHOOSE i \in at..Len(str) : str[i] = c /\ \A j \in at..(i - 1) : str[j] # c
    ELSE 0

\* Mutant: a command without metacharacters is always searched for in the path.
Strategy_NoDirect(meta, cmd) ==
    IF meta THEN "ShellInvocation" ELSE "PathSearch"

\* if (has_meta) ... else if (strchr(cmd, PATH_SEP)) ... else ...
Strategy(meta, cmd) ==
    IF meta THEN "ShellInvocation"
    ELSE IF Strchr(cmd, 1, PATH_SEP) # 0 THEN "DirectReplacement"
    ELSE "PathSearch"

\* Mutant: the interpreter gets the command as a script to read.
ShellArgv_Script(cmd) == <<BinSh, cmd>>

\* shargv[0] = "sh"; shargv[1] = "-c"; shargv[2] = cmd; shargv[3] = NULL;
ShellArgv(cmd) == <<Sh, DashC, cmd>>

\* (envv) ? envv : environ
Environment == IF x_envv THEN "envv" ELSE "environ"

\* one execve call: what was passed and what it gave
Attempt(site, file, argvp, r) ==
    [site |-> site, file |-> file, argv |-> argvp, env |-> Environment, r |-> r]

\* execve(file, argvp, ...) gives r: the call is recorded, and either the
\* image is replaced or errno is set and do_exec goes on at failed
Execve(site, file, argvp, r, failed) ==
    /\ x_log' = Append(x_log, Attempt(site, file, argvp, r))
    /\ x_errno' = IF r = "ok" THEN x_errno ELSE r
    /\ x_pc' = IF r = "ok" THEN "replaced" ELSE failed

\* The elements of argv and of shargv are numbered from 0, as in the code; the
\* terminator of argv is argv[Len(argv)], and behind it lie the pointers b and
\* the next null pointer.

\* while (argv[nargs]) ++nargs;  for (nargs = 1; argv[nargs]; ++nargs) ...:
\* the indices of argv that new_shargv reads
ArgvReads(argv, b) ==
    (0..Len(argv)) \cup (1..(IF Len(argv) = 0 THEN Len(b) + 1 ELSE Len(argv)))

\* shargv[0] = ...; shargv[1] = ...; shargv[nargs + 1] = argv[nargs];
\* shargv[nargs + 1] = NULL: the indices of shargv that new_shargv writes
ShargvWrites(argv, b) ==
    LET last == IF Len(argv) = 0 THEN Len(b) + 1 ELSE Len(argv)
    IN  {0, 1} \cup {i + 1 : i \in 1..(last - 1)} \cup {last + 1}

\* malloc((nargs + 2) * sizeof(char **)): the indices of shargv that exist
ShargvSlots(argv) == 0..(Len(argv) + 1)

\* new_shargv(cmd, argv): the results it can have.  malloc can fail, which
\* gives a null pointer.  With argv[0] null, nargs is 0 and the second loop
\* starts at argv[1], behind the terminator: it copies what it finds there up
\* to the next null pointer into shargv, behind the nargs + 2 slots that were
\* allocated, or the process is killed on the way.
new_shargv(cmd, argv) ==
    {[killed |-> FALSE, p |-> Null]}
    \cup IF Len(argv) >= 1
         THEN {[killed |-> FALSE,
                p |-> Ptr(<<BinSh, cmd>> \o [i \in 1..(Len(argv) - 1) |-> argv[i + 1]])]}
         ELSE {[killed |-> FALSE, p |-> Ptr(<<BinSh, cmd>> \o b)] : b \in Beyond}
              \cup {[killed |-> TRUE, p |-> Null]}

\* shargv = new_shargv(file, argv); execve("/bin/sh", shargv, ...); free(shargv);
\* new_shargv calls malloc after its first loop; a process that is killed is
\* killed in the first loop or in the second.
Fallback(site, file) ==
    \E sh \in new_shargv(file, x_argv.v), r \in ExecveResults :
        IF sh.killed
        THEN /\ x_pc' = "killed"
             /\ \E calls \in {<<>>, <<"malloc">>} : x_heap' = x_heap \o calls
             /\ UNCHANGED <<x_log, x_errno>>
        ELSE /\ Execve(site, BinSh, sh.p, r, "returned")
             /\ x_heap' = x_heap \o (IF r = "ok" THEN <<"malloc">> ELSE <<"malloc", "free">>)

\* execve("/bin/sh", shargv, ...) of the branch for has_meta
do_exec_shell ==
    /\ x_pc = "entry" /\ Strategy(x_meta, x_cmd) = "ShellInvocation"
    /\ \E r \in ExecveResults : Execve("shell", BinSh, Ptr(ShellArgv(x_cmd)), r, "returned")
    /\ UNCHANGED <<x_meta, x_cmd, x_argv, x_envv, x_env, x_euid, x_path, x_s, x_cmdbuf>>
    /\ UNCHANGED x_heap
    /\ UNCHANGED <<vars, daemon, sigs, props>>

\* execve(cmd, argv, ...); if (errno == ENOEXEC) ...
do_exec_direct ==
    /\ x_pc = "entry" /\ Strategy(x_meta, x_cmd) = "DirectReplacement"
    /\ \E r \in ExecveResults :
        Execve("direct", x_cmd, x_argv, r, IF r = ENOEXEC THEN "direct_shargv" ELSE "returned")
    /\ UNCHANGED <<x_meta, x_cmd, x_argv, x_envv, x_env, x_euid, x_path, x_s, x_cmdbuf>>
    /\ UNCHANGED x_heap
    /\ UNCHANGED <<vars, daemon, sigs, props>>

do_exec_direct_fallback ==
    /\ x_pc = "direct_shargv"
    /\ Fallback("direct_fallback", x_cmd)
    /\ UNCHANGED <<x_meta, x_cmd, x_argv, x_envv, x_env, x_euid, x_path, x_s, x_cmdbuf>>
    /\ UNCHANGED <<vars, daemon, sigs, props>>

\* Mutant: the default path of the superuser also starts with the current
\* directory.
SearchPath_UserDefault(env, euid) ==
    IF ~env.null THEN env.v ELSE DEFAULT_USER_PATH

\* if (!(path = getenv("PATH")))
\*     path = geteuid() ? DEFAULT_USER_PATH : DEFAULT_ROOT_PATH;
SearchPath(env, euid) ==
    IF ~env.null THEN env.v
    ELSE IF euid # 0 THEN DEFAULT_USER_PATH ELSE DEFAULT_ROOT_PATH

\* if (!(f = strchr(s, PATH_LIST_SEP))) f = s + strlen(s);
SegmentEnd(path, s) ==
    IF Strchr(path, s, PATH_LIST_SEP) # 0 THEN Strchr(path, s, PATH_LIST_SEP)
    ELSE Len(path) + 1

\* what snprintf(cmdbuf, 512, "%.*s%s%s", f - s, s, (f - s) ? PATH_SEP_STR : "", cmd)
\* formats; its result is the length of this string
Formatted(path, s, f, cmd) ==
    SubSeq(path, s, f - 1) \o (IF f - s # 0 THEN PATH_SEP_STR ELSE <<>>) \o cmd

\* what snprintf leaves in cmdbuf: at most 511 characters
Written(str) == SubSeq(str, 1, IF Len(str) < CMDBUF_SIZE THEN Len(str) ELSE CMDBUF_SIZE - 1)

\* Mutant: the result of snprintf is not tested.
Fits_Always(n) == TRUE

\* if (snprintf(...) >= 512) continue;
Fits(n) == ~(n >= CMDBUF_SIZE)

\* Mutant: the loop goes on one character behind the start of the next segment.
NextSegment_Skip(path, f) == IF f <= Len(path) THEN f + 2 ELSE 0

\* s = (*f) ? f + 1 : NULL
NextSegment(path, f) == IF f <= Len(path) THEN f + 1 ELSE 0

\* the third part of the for statement and its test: the next segment, or the
\* end of the loop and of do_exec
Continue(f) ==
    /\ x_s' = NextSegment(x_path, f)
    /\ x_pc' = IF NextSegment(x_path, f) # 0 THEN "search" ELSE "returned"

\* Mutant: permission denied ends the search.
AfterFailure_StopOnEACCES(err) ==
    IF err = EACCES THEN "stop" ELSE IF err = ENOEXEC THEN "fallback" ELSE "continue"

\* Mutant: a failure that is neither EACCES nor ENOEXEC ends the search.
AfterFailure_StopOnOther(err) ==
    IF err = EACCES THEN "continue" ELSE IF err = ENOEXEC THEN "fallback" ELSE "stop"

\* if (errno == EACCES) continue; if (errno == ENOEXEC) { ... break; }
\* and after any other failure the body of the loop ends, so that the for
\* statement goes on with the next segment
AfterFailure(err) ==
    IF err = EACCES THEN "continue"
    ELSE IF err = ENOEXEC THEN "fallback"
    ELSE "continue"

\* path = getenv("PATH") or the default; s = path
do_exec_search_begin ==
    /\ x_pc = "entry" /\ Strategy(x_meta, x_cmd) = "PathSearch"
    /\ x_path' = SearchPath(x_env, x_euid)
    /\ x_s' = 1
    /\ x_pc' = "search"
    /\ UNCHANGED <<x_meta, x_cmd, x_argv, x_envv, x_env, x_euid, x_cmdbuf, x_errno, x_log>>
    /\ UNCHANGED x_heap
    /\ UNCHANGED <<vars, daemon, sigs, props>>

\* a candidate that does not fit cmdbuf: continue
do_exec_search_skip ==
    /\ x_pc = "search"
    /\ LET f == SegmentEnd(x_path, x_s)
           str == Formatted(x_path, x_s, f, x_cmd)
       IN  /\ ~Fits(Len(str))
           /\ x_cmdbuf' = Written(str)
           /\ Continue(f)
    /\ UNCHANGED <<x_meta, x_cmd, x_argv, x_envv, x_env, x_euid, x_path, x_errno, x_log>>
    /\ UNCHANGED x_heap
    /\ UNCHANGED <<vars, daemon, sigs, props>>

\* if (execve(cmdbuf, argv, ...) == -1) ...
do_exec_search_try ==
    /\ x_pc = "search"
    /\ LET f == SegmentEnd(x_path, x_s)
           str == Formatted(x_path, x_s, f, x_cmd)
       IN  /\ Fits(Len(str))
           /\ x_cmdbuf' = Written(str)
           /\ \E r \in ExecveResults :
                /\ x_log' = Append(x_log, Attempt("search", Written(str), x_argv, r))
                /\ x_errno' = IF r = "ok" THEN x_errno ELSE r
                /\ IF r = "ok" THEN x_pc' = "replaced" /\ UNCHANGED x_s
                   ELSE IF AfterFailure(r) = "continue" THEN Continue(f)
                   ELSE IF AfterFailure(r) = "fallback"
                        THEN x_pc' = "search_shargv" /\ UNCHANGED x_s
                   ELSE x_pc' = "returned" /\ UNCHANGED x_s
    /\ UNCHANGED <<x_meta, x_cmd, x_argv, x_envv, x_env, x_euid, x_path>>
    /\ UNCHANGED x_heap
    /\ UNCHANGED <<vars, daemon, sigs, props>>

\* shargv = new_shargv(cmdbuf, argv); execve("/bin/sh", shargv, ...); break;
do_exec_search_fallback ==
    /\ x_pc = "search_shargv"
    /\ Fallback("search_fallback", x_cmdbuf)
    /\ UNCHANGED <<x_meta, x_cmd, x_argv, x_envv, x_env, x_euid, x_path, x_s, x_cmdbuf>>
    /\ UNCHANGED <<vars, daemon, sigs, props>>

\* do_exec is called as coproc_open and coproc_pty_open call it: has_meta says
\* whether cmd has a metacharacter, and argv is null exactly when it has.
InitExec ==
    /\ InitCaller
    /\ \A fd \in {STDIN_FILENO, STDOUT_FILENO, STDERR_FILENO} : fds[fd] = TTY
    /\ x_pc = "entry"
    /\ x_cmd \in ExecCmds
    /\ x_meta = HasMeta(x_cmd)
    /\ x_argv \in (IF x_meta THEN {Null} ELSE {Ptr(v) : v \in Argvs})
    /\ x_envv \in BOOLEAN
    /\ x_env \in {Null} \cup {Ptr(p) : p \in PathStrings}
    /\ x_euid \in {0, 1}
    /\ x_path = <<>>
    /\ x_s = 0
    /\ x_cmdbuf = <<>>
    /\ x_errno = NOERR
    /\ x_log = <<>>
    /\ x_heap = <<>>
    /\ NoDaemon /\ NoSig /\ NoProp

NextExec ==
    \/ do_exec_shell
    \/ do_exec_direct
    \/ do_exec_direct_fallback
    \/ do_exec_search_begin
    \/ do_exec_search_skip
    \/ do_exec_search_try
    \/ do_exec_search_fallback

SpecExec == InitExec /\ [][NextExec]_<<vars, doexec>>

\* The child runs on: nothing but the kernel's scheduling stands between two
\* statements of do_exec.
FairSpecExec == SpecExec /\ WF_<<vars, doexec>>(NextExec)

(***************************************************************************)
(* daemon_init, daemon_pidfile and daemon_close.  Each process is one       *)
(* instance of a daemon; all of them use the same name, so the same path.  *)
(* The path names a file or nothing; a file lives on while a process has it *)
(* open, also when the path does not name it any more.                     *)
(***************************************************************************)

\* getpid(): the processes have the ids FirstPid, FirstPid + 1, ...
FirstPid == 9
getpid(p) == FirstPid + p - 1

DigitChars == <<"0", "1", "2", "3", "4", "5", "6", "7", "8", "9">>

\* the conversion %d of a number that is not negative
RECURSIVE Decimal(_)
Decimal(n) ==
    IF n < 10 THEN <<DigitChars[n + 1]>>
    ELSE Decimal(n \div 10) \o <<DigitChars[(n % 10) + 1]>>

\* snprintf(pid, 32, "%d\n", getpid())
PidLine(n) == Decimal(n) \o <<"\n">>

\* write(pid_fd, ...) at offset 0 of a file that was opened without O_TRUNC:
\* the bytes replace the first bytes of the file, the rest stays
Overwrite(old, new) == new \o SubSeq(old, Len(new) + 1, Len(old))

\* fcntl_lock(pid_fd, F_SETLK, F_WRLCK, SEEK_SET, 0, 0) succeeds unless
\* another process holds a lock on the file
fcntl_lock(p, i) == d_lock[i] \in {0, p}

\* daemon_init(name) up to the call of daemon_pidfile: fork, chdir, limit_open,
\* open and dup2 can fail, and then daemon_init returns -1
daemon_init(p) ==
    /\ d_pc[p] = "none"
    /\ \E ok \in BOOLEAN : d_pc' = [d_pc EXCEPT ![p] = IF ok THEN "pidfile" ELSE "failed"]
    /\ UNCHANGED <<d_fd, d_pidfile, d_path, d_content, d_lock>>
    /\ UNCHANGED <<vars, doexec, sigs, props>>

\* g.pidfile = mem_create(...); open(g.pidfile, O_RDWR | O_CREAT | O_EXCL, mode)
daemon_pidfile_create(p) ==
    /\ d_pc[p] = "pidfile"
    /\ \/ /\ d_path = 0
          /\ d_path' = p
          /\ d_content' = [d_content EXCEPT ![p] = <<>>]
          /\ d_fd' = [d_fd EXCEPT ![p] = p]
          /\ d_pidfile' = [d_pidfile EXCEPT ![p] = TRUE]
          /\ d_pc' = [d_pc EXCEPT ![p] = "lock"]
       \/ /\ d_path # 0
          /\ d_pidfile' = [d_pidfile EXCEPT ![p] = TRUE]
          /\ d_pc' = [d_pc EXCEPT ![p] = "open"]
          /\ UNCHANGED <<d_path, d_content, d_fd>>
       \/ /\ d_pc' = [d_pc EXCEPT ![p] = "failed"]
          /\ UNCHANGED <<d_path, d_content, d_fd, d_pidfile>>
    /\ UNCHANGED d_lock
    /\ UNCHANGED <<vars, doexec, sigs, props>>

\* errno == EEXIST: open(g.pidfile, O_RDWR)
daemon_pidfile_open(p) ==
    /\ d_pc[p] = "open"
    /\ \/ /\ d_path # 0
          /\ d_fd' = [d_fd EXCEPT ![p] = d_path]
          /\ d_pc' = [d_pc EXCEPT ![p] = "lock"]
          /\ UNCHANGED d_pidfile
       \/ /\ d_pidfile' = [d_pidfile EXCEPT ![p] = FALSE]
          /\ d_pc' = [d_pc EXCEPT ![p] = "failed"]
          /\ UNCHANGED d_fd
    /\ UNCHANGED <<d_path, d_content, d_lock>>
    /\ UNCHANGED <<vars, doexec, sigs, props>>

\* Mutant: the name of the pidfile is kept.
mem_destroy_Kept(pidfile) == pidfile

\* mem_destroy(&g.pidfile): the name is deallocated and g.pidfile is null
mem_destroy(pidfile) == FALSE

\* if (fcntl_lock(pid_fd, F_SETLK, F_WRLCK, SEEK_SET, 0, 0) == -1)
\* { mem_destroy(&g.pidfile); return -1; }: daemon_init returns -1 because
\* another process holds the lock ("refused")
daemon_pidfile_lock(p) ==
    /\ d_pc[p] = "lock"
    /\ IF fcntl_lock(p, d_fd[p])
       THEN /\ d_lock' = [d_lock EXCEPT ![d_fd[p]] = p]
            /\ d_pc' = [d_pc EXCEPT ![p] = "write"]
            /\ UNCHANGED d_pidfile
       ELSE /\ d_pidfile' = [d_pidfile EXCEPT ![p] = mem_destroy(@)]
            /\ d_pc' = [d_pc EXCEPT ![p] = "refused"]
            /\ UNCHANGED d_lock
    /\ UNCHANGED <<d_fd, d_path, d_content>>
    /\ UNCHANGED <<vars, doexec, sigs, props>>

\* the thread of the process holds g.lock: daemon_init has locked it around
\* the call of daemon_pidfile
HoldsLock(p) == d_pc[p] \in {"pidfile", "open", "lock", "write", "relock", "hung"}

\* if (write(pid_fd, pid, strlen(pid)) != strlen(pid)) { daemon_close();
\* return -1; } return 0;
daemon_pidfile_write(p) ==
    /\ d_pc[p] = "write"
    /\ LET line == PidLine(getpid(p))
           file == d_fd[p]
       IN  \/ /\ d_content' = [d_content EXCEPT ![file] = Overwrite(@, line)]
              /\ d_pc' = [d_pc EXCEPT ![p] = "running"]
           \/ \E n \in 0..(Len(line) - 1) :
                /\ d_content' = [d_content EXCEPT ![file] = Overwrite(@, SubSeq(line, 1, n))]
                /\ d_pc' = [d_pc EXCEPT ![p] = "relock"]
    /\ UNCHANGED <<d_fd, d_lock, d_path, d_pidfile>>
    /\ UNCHANGED <<vars, doexec, sigs, props>>

\* daemon_close() called by daemon_pidfile: pthread_mutex_lock(&g.lock) on a
\* mutex of the default kind that the thread has locked already.  The thread
\* blocks for ever, or the lock fails with EDEADLK and daemon_close returns
\* at once, or the lock is taken again and the path is unlinked; in the last
\* two cases daemon_init returns -1.
daemon_close_relock(p) ==
    /\ d_pc[p] = "relock"
    /\ \/ /\ d_pc' = [d_pc EXCEPT ![p] = "hung"]
          /\ UNCHANGED <<d_path, d_pidfile>>
       \/ /\ d_pc' = [d_pc EXCEPT ![p] = "failed"]
          /\ UNCHANGED <<d_path, d_pidfile>>
       \/ /\ d_path' = 0
          /\ d_pidfile' = [d_pidfile EXCEPT ![p] = mem_destroy(@)]
          /\ d_pc' = [d_pc EXCEPT ![p] = "failed"]
    /\ UNCHANGED <<d_fd, d_content, d_lock>>
    /\ UNCHANGED <<vars, doexec, sigs, props>>

\* daemon_close() called by the client, after daemon_init has returned:
\* if (g.pidfile) { unlink(g.pidfile); mem_destroy(&g.pidfile); } return 0;
daemon_close(p) ==
    /\ d_pc[p] \in {"running", "failed", "refused"}
    /\ IF d_pidfile[p]
       THEN /\ d_path' = 0
            /\ d_pidfile' = [d_pidfile EXCEPT ![p] = mem_destroy(@)]
       ELSE UNCHANGED <<d_path, d_pidfile>>
    /\ d_pc' = [d_pc EXCEPT ![p] = IF d_pc[p] = "refused" THEN "refused_closed" ELSE "closed"]
    /\ UNCHANGED <<d_fd, d_content, d_lock>>
    /\ UNCHANGED <<vars, doexec, sigs, props>>

\* The process ends, by exit or by a signal: its descriptors are closed and
\* its locks are released.  The pidfile stays unless daemon_close was called.
daemon_exit(p) ==
    /\ d_pc[p] \in {"running", "closed", "failed", "hung", "refused", "refused_closed"}
    /\ d_pc' = [d_pc EXCEPT ![p] = "dead"]
    /\ d_fd' = [d_fd EXCEPT ![p] = 0]
    /\ d_lock' = [i \in DP |-> IF d_lock[i] = p THEN 0 ELSE d_lock[i]]
    /\ UNCHANGED <<d_pidfile, d_path, d_content>>
    /\ UNCHANGED <<vars, doexec, sigs, props>>

InitDaemon ==
    /\ InitCaller
    /\ \A fd \in {STDIN_FILENO, STDOUT_FILENO, STDERR_FILENO} : fds[fd] = TTY
    /\ NoDoExec /\ NoSig /\ NoProp
    /\ NoDaemon

NextDaemon ==
    \E p \in DP :
        \/ daemon_init(p)
        \/ daemon_pidfile_create(p)
        \/ daemon_pidfile_open(p)
        \/ daemon_pidfile_lock(p)
        \/ daemon_pidfile_write(p)
        \/ daemon_close_relock(p)
        \/ daemon_close(p)
        \/ daemon_exit(p)

SpecDaemon == InitDaemon /\ [][NextDaemon]_<<vars, doexec, daemon, sigs>>

(***************************************************************************)
(* The sig module: signal_set_handler, signal_addset, signal_catcher,      *)
(* signal_received, signal_raise, signal_handle and signal_handle_all.     *)
(* One thread calls the functions; signals arrive at any time between two  *)
(* of its steps.  The signal numbers of the model are not among those      *)
(* whose handlers are installed as the real handlers (SIGILL, SIGABRT,     *)
(* ...), and a handler of the client returns.                              *)
(***************************************************************************)

\* the signal numbers the client passes: those of the tables, one below and
\* one above
SigArgs == (0 - 1)..SIG_MAX

\* signo < 0 || signo >= SIG_MAX
OutOfRange(signo) == signo < 0 \/ signo >= SIG_MAX

\* h->action->sa_handler = signal_catcher, for a handler other than SIG_DFL
\* and SIG_IGN
Catches(signo) == g_handler[signo] = ClientHandler

\* what the two tables can hold after a write outside them: what they held,
\* or a handler that has become a null pointer, or a count that has changed
Clobbered ==
    {<<g_handler, g_received>>}
    \cup {<<[g_handler EXCEPT ![k] = SIG_DFL], g_received>> : k \in Signals}
    \cup {<<g_handler, [g_received EXCEPT ![k] = v]>> : k \in Signals, v \in {0, MaxReceipts}}

\* A function indexes the tables named in arrays with a signal number that is
\* out of range.  The process is killed, or the function goes on to return r
\* with errno e and the tables are as Clobbered says.
WildAccess(arrays, r, e) ==
    /\ s_oob' = s_oob \cup arrays
    /\ \/ /\ s_pc' = "killed"
          /\ UNCHANGED <<g_handler, g_received, s_ret, s_errno>>
       \/ /\ \E t \in Clobbered : g_handler' = t[1] /\ g_received' = t[2]
          /\ s_ret' = r
          /\ s_errno' = e
          /\ UNCHANGED s_pc

\* signal_set_handler(signo, flags, handler): the tables are written at
\* signo, whatever signo is, and then sigaction(signo, ...) is called, which
\* fails with EINVAL for a signal number that is out of range
signal_set_handler(signo, handler) ==
    /\ s_pc = "idle"
    /\ IF OutOfRange(signo)
       THEN /\ WildAccess({"g_handler", "g_received"}, 0 - 1, EINVAL)
            /\ UNCHANGED <<g_mask, s_since>>
       ELSE /\ g_handler' = [g_handler EXCEPT ![signo] = handler]
            /\ g_mask' = [g_mask EXCEPT ![signo] = {signo}]
            /\ g_received' = [g_received EXCEPT ![signo] = 0]
            /\ s_since' = [s_since EXCEPT ![signo] = 0]
            /\ s_ret' = 0
            /\ UNCHANGED <<s_pc, s_errno, s_oob>>
    /\ UNCHANGED <<s_signo, s_via, s_mask, s_pending, s_tested, s_calls>>
    /\ UNCHANGED <<vars, doexec, daemon, props>>

\* sigaddset(&h->action->sa_mask, signo_blocked)
AddedMask(mask, signo_blocked) == mask \cup {signo_blocked}

\* signal_addset(signo_handled, signo_blocked): return sigaddset(...), which
\* fails with EINVAL when signo_blocked is no signal number and writes the
\* mask otherwise, wherever signo_handled puts it
signal_addset(signo_handled, signo_blocked) ==
    /\ s_pc = "idle"
    /\ IF OutOfRange(signo_blocked)
       THEN /\ s_ret' = 0 - 1
            /\ s_errno' = EINVAL
            /\ UNCHANGED <<g_handler, g_mask, g_received, s_pc, s_oob>>
       ELSE IF OutOfRange(signo_handled)
       THEN /\ WildAccess({"g_handler"}, 0, s_errno)
            /\ UNCHANGED g_mask
       ELSE /\ g_mask' = [g_mask EXCEPT ![signo_handled] = AddedMask(@, signo_blocked)]
            /\ s_ret' = 0
            /\ UNCHANGED <<g_handler, g_received, s_pc, s_errno, s_oob>>
    /\ UNCHANGED <<s_signo, s_via, s_mask, s_pending, s_tested, s_calls, s_since>>
    /\ UNCHANGED <<vars, doexec, daemon, props>>

\* A signal arrives that is not blocked: signal_catcher runs,
\* ++g_received[signo].
signal_catcher(signo) ==
    /\ s_pc # "killed"
    /\ Catches(signo) /\ signo \notin s_mask
    /\ g_received[signo] < MaxReceipts /\ s_since[signo] < MaxReceipts
    /\ g_received' = [g_received EXCEPT ![signo] = @ + 1]
    /\ s_since' = [s_since EXCEPT ![signo] = @ + 1]
    /\ UNCHANGED <<g_handler, g_mask, s_pc, s_signo, s_via, s_mask, s_pending, s_ret,
                   s_errno, s_oob, s_tested, s_calls>>
    /\ UNCHANGED <<vars, doexec, daemon, props>>

\* A signal arrives that is blocked: it stays pending until it is unblocked.
signal_pending(signo) ==
    /\ s_pc # "killed"
    /\ Catches(signo) /\ signo \in s_mask
    /\ g_received[signo] < MaxReceipts /\ s_since[signo] < MaxReceipts
    /\ s_pending' = s_pending \cup {signo}
    /\ UNCHANGED <<g_handler, g_mask, g_received, s_pc, s_signo, s_via, s_mask, s_ret,
                   s_errno, s_oob, s_tested, s_calls, s_since>>
    /\ UNCHANGED <<vars, doexec, daemon, props>>

\* signal_received(signo): if (signo < 0 || signo >= SIG_MAX) return
\* set_errno(EINVAL); return g_received[signo];
signal_received(signo) ==
    /\ s_pc = "idle"
    /\ IF OutOfRange(signo)
       THEN s_ret' = 0 - 1 /\ s_errno' = EINVAL
       ELSE s_ret' = g_received[signo] /\ UNCHANGED s_errno
    /\ UNCHANGED <<g_handler, g_mask, g_received, s_pc, s_signo, s_via, s_mask, s_pending,
                   s_oob, s_tested, s_calls, s_since>>
    /\ UNCHANGED <<vars, doexec, daemon, props>>

\* signal_raise(signo): if (signo < 0 || signo >= SIG_MAX) return
\* set_errno(EINVAL); return ++g_received[signo];
signal_raise(signo) ==
    /\ s_pc = "idle"
    /\ IF OutOfRange(signo)
       THEN /\ s_ret' = 0 - 1 /\ s_errno' = EINVAL
            /\ UNCHANGED <<g_received, s_since>>
       ELSE /\ g_received[signo] < MaxReceipts /\ s_since[signo] < MaxReceipts
            /\ g_received' = [g_received EXCEPT ![signo] = @ + 1]
            /\ s_since' = [s_since EXCEPT ![signo] = @ + 1]
            /\ s_ret' = g_received[signo] + 1
            /\ UNCHANGED s_errno
    /\ UNCHANGED <<g_handler, g_mask, s_pc, s_signo, s_via, s_mask, s_pending, s_oob,
                   s_tested, s_calls>>
    /\ UNCHANGED <<vars, doexec, daemon, props>>

\* signal_handle_all(): for (signo = 0; ...
signal_handle_all_begin ==
    /\ s_pc = "idle"
    /\ s_pc' = "test"
    /\ s_signo' = 0
    /\ s_via' = "all"
    /\ s_tested' = [signo \in Signals |-> "no"]
    /\ s_calls' = [signo \in Signals |-> 0]
    /\ UNCHANGED <<g_handler, g_mask, g_received, s_mask, s_pending, s_ret, s_errno, s_oob,
                   s_since>>
    /\ UNCHANGED <<vars, doexec, daemon, props>>

\* ... signo < SIG_MAX; ++signo) if (signal_received(signo)) signal_handle(signo);
signal_handle_all_test ==
    /\ s_pc = "test"
    /\ IF s_signo >= SIG_MAX
       THEN s_pc' = "done" /\ UNCHANGED <<s_signo, s_tested>>
       ELSE IF g_received[s_signo] # 0
       THEN /\ s_tested' = [s_tested EXCEPT ![s_signo] = "received"]
            /\ s_pc' = "block"
            /\ UNCHANGED s_signo
       ELSE /\ s_tested' = [s_tested EXCEPT ![s_signo] = "none"]
            /\ s_signo' = s_signo + 1
            /\ UNCHANGED s_pc
    /\ UNCHANGED <<g_handler, g_mask, g_received, s_via, s_mask, s_pending, s_ret, s_errno,
                   s_oob, s_calls, s_since>>
    /\ UNCHANGED <<vars, doexec, daemon, props>>

\* signal_handle_all returns; the history of the pass ends with it
signal_handle_all_return ==
    /\ s_pc = "done"
    /\ s_pc' = "idle"
    /\ s_signo' = 0
    /\ s_tested' = [signo \in Signals |-> "no"]
    /\ s_calls' = [signo \in Signals |-> 0]
    /\ UNCHANGED <<g_handler, g_mask, g_received, s_via, s_mask, s_pending, s_ret,
                   s_errno, s_oob, s_since>>
    /\ UNCHANGED <<vars, doexec, daemon, props>>

\* The client calls signal_handle(signo).  With a signal number that is out of
\* range the mask, the handler and the count are taken from outside the
\* tables: the process is killed, or the call returns what sigprocmask gives.
signal_handle(signo) ==
    /\ s_pc = "idle"
    /\ IF OutOfRange(signo)
       THEN /\ \/ WildAccess({"g_handler", "g_received"}, 0, s_errno)
               \/ WildAccess({"g_handler", "g_received"}, 0 - 1, EINVAL)
            /\ UNCHANGED <<s_signo, s_via, s_tested, s_calls>>
       ELSE /\ s_pc' = "block"
            /\ s_signo' = signo
            /\ s_via' = "one"
            /\ s_tested' = [k \in Signals |-> "no"]
            /\ s_calls' = [k \in Signals |-> 0]
            /\ UNCHANGED <<g_handler, g_received, s_ret, s_errno, s_oob>>
    /\ UNCHANGED <<g_mask, s_mask, s_pending, s_since>>
    /\ UNCHANGED <<vars, doexec, daemon, props>>

\* Mutant: no signal is blocked while the handler runs.
HandleMask_Empty(signo) == {}

\* &h->action->sa_mask, the set that signal_handle blocks
HandleMask(signo) == g_mask[signo]

\* signal_handle(signo): sigprocmask(SIG_BLOCK, &h->action->sa_mask, origmask)
signal_handle_block ==
    /\ s_pc = "block"
    /\ s_mask' = s_mask \cup HandleMask(s_signo)
    /\ s_pc' = "call"
    /\ UNCHANGED <<g_handler, g_mask, g_received, s_signo, s_via, s_pending, s_ret,
                   s_errno, s_oob, s_tested, s_calls, s_since>>
    /\ UNCHANGED <<vars, doexec, daemon, props>>

\* g_handler[signo].handler(signo): the function of the client runs and
\* returns.  When the handler is SIG_DFL or SIG_IGN the call goes through a
\* pointer that is no function: the process is killed, or it goes on with no
\* function of the client having run.
signal_handle_call ==
    /\ s_pc = "call"
    /\ IF g_handler[s_signo] = ClientHandler
       THEN /\ s_calls' = [s_calls EXCEPT ![s_signo] = @ + 1]
            /\ s_pc' = "reset"
       ELSE /\ s_pc' \in {"killed", "reset"}
            /\ UNCHANGED s_calls
    /\ UNCHANGED <<g_handler, g_mask, g_received, s_signo, s_via, s_mask, s_pending, s_ret,
                   s_errno, s_oob, s_tested, s_since>>
    /\ UNCHANGED <<vars, doexec, daemon, props>>

\* g_received[signo] = 0;
signal_handle_reset ==
    /\ s_pc = "reset"
    /\ g_received' = [g_received EXCEPT ![s_signo] = 0]
    /\ s_since' = [s_since EXCEPT ![s_signo] = 0]
    /\ s_pc' = "unblock"
    /\ UNCHANGED <<g_handler, g_mask, s_signo, s_via, s_mask, s_pending, s_ret, s_errno,
                   s_oob, s_tested, s_calls>>
    /\ UNCHANGED <<vars, doexec, daemon, props>>

\* return sigprocmask(SIG_SETMASK, origmask, NULL): the signals that are
\* pending are delivered now, and signal_catcher counts them.  signal_handle
\* returns 0, to the client or into the loop of signal_handle_all.
signal_handle_unblock ==
    /\ s_pc = "unblock"
    /\ s_mask' = {}
    /\ s_pending' = {}
    /\ g_received' = [k \in Signals |-> IF k \in s_pending THEN g_received[k] + 1
                                         ELSE g_received[k]]
    /\ s_since' = [k \in Signals |-> IF k \in s_pending THEN s_since[k] + 1 ELSE s_since[k]]
    /\ IF s_via = "all"
       THEN s_signo' = s_signo + 1 /\ s_pc' = "test" /\ UNCHANGED s_ret
       ELSE s_pc' = "idle" /\ s_ret' = 0 /\ s_signo' = 0
    /\ IF s_via = "all"
       THEN UNCHANGED <<s_via, s_calls>>
       ELSE s_via' = "all" /\ s_calls' = [k \in Signals |-> 0]
    /\ UNCHANGED <<g_handler, g_mask, s_errno, s_oob, s_tested>>
    /\ UNCHANGED <<vars, doexec, daemon, props>>

InitSig ==
    /\ InitCaller
    /\ \A fd \in {STDIN_FILENO, STDOUT_FILENO, STDERR_FILENO} : fds[fd] = TTY
    /\ NoDoExec /\ NoDaemon /\ NoProp
    /\ NoSig

\* the client passes signal numbers of the tables, and signals arrive
NextSig ==
    \/ \E signo \in Signals, handler \in {SIG_DFL, SIG_IGN, ClientHandler} :
            signal_set_handler(signo, handler)
    \/ \E signo_handled \in Signals, signo_blocked \in Signals :
            signal_addset(signo_handled, signo_blocked)
    \/ \E signo \in Signals : signal_catcher(signo)
    \/ \E signo \in Signals : signal_pending(signo)
    \/ \E signo \in Signals : signal_received(signo)
    \/ \E signo \in Signals : signal_raise(signo)
    \/ \E signo \in Signals : signal_handle(signo)
    \/ signal_handle_all_begin
    \/ signal_handle_all_test
    \/ signal_handle_all_return
    \/ signal_handle_block
    \/ signal_handle_call
    \/ signal_handle_reset
    \/ signal_handle_unblock

\* the client passes any signal number to the functions that take one
NextSigArgs ==
    \/ \E signo \in SigArgs, handler \in {SIG_DFL, SIG_IGN, ClientHandler} :
            signal_set_handler(signo, handler)
    \/ \E signo_handled \in SigArgs, signo_blocked \in SigArgs :
            signal_addset(signo_handled, signo_blocked)
    \/ \E signo \in SigArgs : signal_received(signo)
    \/ \E signo \in SigArgs : signal_raise(signo)
    \/ \E signo \in SigArgs : signal_handle(signo)
    \/ signal_handle_block
    \/ signal_handle_call
    \/ signal_handle_reset
    \/ signal_handle_unblock

SpecSigArgs == InitSig /\ [][NextSigArgs]_<<vars, doexec, daemon, sigs>>

SpecSig == InitSig /\ [][NextSig]_<<vars, doexec, daemon, sigs>>

(***************************************************************************)
(* The prop module: prop_init, prop_get, prop_get_or, prop_set, prop_unset *)
(* and prop_save.  A properties file is the map that prop_load makes of    *)
(* it; a Map holds at most one value for a name.                           *)
(***************************************************************************)

\* map_get(map, name): the value of name, NULL when there is none
map_get(map, name) == map[name]

\* map_put(map, name, value): name has the value, whether it had one or not
map_put(map, name, value) == [map EXCEPT ![name] = value]

\* map_remove(map, name): name has no value
map_remove(map, name) == [map EXCEPT ![name] = NULL]

\* Mutant: the files are loaded from the most specific to the most generic.
LoadOrder_Reversed == <<"user.prog", "system.prog", "user", "system">>

\* the order in which prop_init loads the files
LoadOrder == <<"system", "user", "system.prog", "user.prog">>

\* if (home) ..., if (prog_name()) ...: the files prop_init tries to load
Tried(layer) ==
    /\ layer \in {"user", "user.prog"} => p_home
    /\ layer \in {"system.prog", "user.prog"} => p_prog

\* prop_next = prop_load(path, prop); if (prop_next) prop = prop_next;
prop_load(layer, prop) ==
    IF Tried(layer) /\ p_files[layer].exists THEN <<p_files[layer].map>> \o prop ELSE prop

RECURSIVE LoadFrom(_, _)
LoadFrom(i, prop) ==
    IF i > Len(LoadOrder) THEN prop ELSE LoadFrom(i + 1, prop_load(LoadOrder[i], prop))

\* prop_init(): the chain that becomes g.prop; without a user-defined,
\* program-specific file an empty map is the top level
prop_init ==
    LET writable == Tried("user.prog") /\ p_files["user.prog"].exists
    IN  IF writable THEN LoadFrom(1, <<>>) ELSE <<NoMap>> \o LoadFrom(1, <<>>)

\* if (!g.init && prop_init() == -1) return ...: ok says that prop_init
\* succeeds if it is called
Initialise(ok) ==
    IF p_init \/ ~ok
    THEN UNCHANGED <<p_init, p_prop, p_loads>>
    ELSE p_init' = TRUE /\ p_prop' = prop_init /\ p_loads' = p_loads + 1

\* for (p = g.prop; p; p = p->defaults) if ((value = map_get(p->map, name))) break;
RECURSIVE Lookup(_, _)
Lookup(prop, name) ==
    IF prop = <<>> THEN NULL
    ELSE IF map_get(Head(prop), name) # NULL THEN map_get(Head(prop), name)
    ELSE Lookup(Tail(prop), name)

\* prop_get(name)
prop_get_value(ok, name) ==
    IF ~p_init /\ ~ok THEN NULL
    ELSE Lookup(IF p_init THEN p_prop ELSE prop_init, name)

prop_get(name) ==
    \E ok \in BOOLEAN :
        /\ Initialise(ok)
        /\ p_call' = <<"prop_get", name>>
        /\ p_ret' = prop_get_value(ok, name)
        /\ p_rc' = 0 /\ p_wrote' = FALSE
        /\ UNCHANGED <<p_files, p_disk, p_prog, p_home, p_dirty, p_last, p_changed>>
        /\ UNCHANGED <<vars, doexec, daemon, sigs>>

\* prop_get_or(name, default_value): return prop ? prop : default_value
prop_get_or(name, default_value) ==
    \E ok \in BOOLEAN :
        /\ Initialise(ok)
        /\ p_call' = <<"prop_get_or", name>>
        /\ p_ret' = (IF prop_get_value(ok, name) # NULL THEN prop_get_value(ok, name)
                     ELSE default_value)
        /\ p_rc' = 0 /\ p_wrote' = FALSE
        /\ UNCHANGED <<p_files, p_disk, p_prog, p_home, p_dirty, p_last, p_changed>>
        /\ UNCHANGED <<vars, doexec, daemon, sigs>>

\* prop_set(name, value): mem_strdup or map_put can fail after prop_init
prop_set(name, value) ==
    \E ok \in BOOLEAN, put \in BOOLEAN :
        /\ p_call' = <<"prop_set", name>>
        /\ IF (p_init \/ ok) /\ put
           THEN /\ p_prop' = [(IF p_init THEN p_prop ELSE prop_init)
                                EXCEPT ![1] = map_put(@, name, value)]
                /\ p_init' = TRUE
                /\ p_loads' = (IF p_init THEN p_loads ELSE p_loads + 1)
                /\ p_dirty' = TRUE
                /\ p_ret' = value
                /\ p_last' = [p_last EXCEPT ![name] = value]
                /\ p_changed' =
                        (p_changed \/ map_get((IF p_init THEN p_prop ELSE prop_init)[1], name) # value)
           ELSE /\ Initialise(ok)
                /\ p_ret' = NULL
                /\ UNCHANGED <<p_dirty, p_last, p_changed>>
        /\ p_rc' = 0 /\ p_wrote' = FALSE
        /\ UNCHANGED <<p_files, p_disk, p_prog, p_home>>
        /\ UNCHANGED <<vars, doexec, daemon, sigs>>

\* Mutant: the name is removed from the top level only.
Removed_TopOnly(prop, name) ==
    [i \in 1..Len(prop) |-> IF i = 1 THEN map_remove(prop[i], name) ELSE prop[i]]

\* for (p = g.prop; p; p = p->defaults) map_remove(p->map, name);
Removed(prop, name) == [i \in 1..Len(prop) |-> map_remove(prop[i], name)]

\* prop_unset(name)
prop_unset(name) ==
    \E ok \in BOOLEAN :
        /\ p_call' = <<"prop_unset", name>>
        /\ IF p_init \/ ok
           THEN LET prop == IF p_init THEN p_prop ELSE prop_init
                IN  /\ p_prop' = Removed(prop, name)
                    /\ p_init' = TRUE
                    /\ p_loads' = (IF p_init THEN p_loads ELSE p_loads + 1)
                    /\ p_dirty' = TRUE
                    /\ p_rc' = 0
                    /\ p_last' = [p_last EXCEPT ![name] = "unset"]
                    /\ p_changed' = (p_changed \/ Lookup(prop, name) # NULL)
           ELSE /\ p_rc' = 0 - 1
                /\ UNCHANGED <<p_init, p_prop, p_loads, p_dirty, p_last, p_changed>>
        /\ p_ret' = NULL /\ p_wrote' = FALSE
        /\ UNCHANGED <<p_files, p_disk, p_prog, p_home>>
        /\ UNCHANGED <<vars, doexec, daemon, sigs>>

\* prop_get_bool_or(name, default_value) for the value that prop_get gave: a
\* number is the result, true, yes and on are 1, false, no and off are 0, and
\* everything else, no value included, is default_value
prop_get_bool_or(value, default_value) ==
    IF value = "0" THEN 0
    ELSE IF value = "1" THEN 1
    ELSE IF value \in {"true", "yes", "on"} THEN 1
    ELSE IF value \in {"false", "no", "off"} THEN 0
    ELSE default_value

\* list_sort(keys, key_cmp): the names in the order of strcmp
SortedNames == <<"key", "other", "save">>

\* the keys of a map, sorted
SortedKeys(map) == SelectSeq(SortedNames, LAMBDA name : map_get(map, name) # NULL)

\* the file after fopen(path, "w") and the lines of the first n keys
FileWith(map, n) ==
    [name \in Names |->
        IF \E i \in 1..n : SortedKeys(map)[i] = name THEN map_get(map, name) ELSE NULL]

\* prop_save()
prop_save ==
    \E ok \in BOOLEAN :
        /\ Initialise(ok)
        /\ p_call' = <<"prop_save", "">>
        /\ IF prop_get_bool_or(prop_get_value(ok, "save"), 1) = 0
           THEN \* if (!prop_get_bool_or("save", 1)) return 0;
                /\ p_rc' = 0 /\ p_wrote' = FALSE
                /\ UNCHANGED <<p_disk, p_dirty, p_changed>>
           ELSE IF ~p_dirty
           THEN \* if (!g.dirty) return 0;
                /\ p_rc' = 0 /\ p_wrote' = FALSE
                /\ UNCHANGED <<p_disk, p_dirty, p_changed>>
           ELSE IF ~p_prog \/ ~p_home
           THEN \* if (!prog_name()) return -1; if (!(home = user_home())) return -1;
                /\ p_rc' = 0 - 1 /\ p_wrote' = FALSE
                /\ UNCHANGED <<p_disk, p_dirty, p_changed>>
           ELSE \/ \* mem_create, mkdir, stat, mem_strdup or fopen fails
                   /\ p_rc' = 0 - 1 /\ p_wrote' = FALSE
                   /\ UNCHANGED <<p_disk, p_dirty, p_changed>>
                \/ \* map_keys, list_sort, lister_create or a quote_ call
                   \* fails after fopen has truncated the file
                   /\ \E n \in 0..Len(SortedKeys(p_prop[1])) :
                        /\ n = 0 \/ n < Len(SortedKeys(p_prop[1]))
                        /\ p_disk' = FileOf(FileWith(p_prop[1], n))
                   /\ p_rc' = 0 - 1 /\ p_wrote' = TRUE
                   /\ UNCHANGED <<p_dirty, p_changed>>
                \/ \* every line is written: g.dirty = 0; return 0;
                   /\ p_disk' = FileOf(FileWith(p_prop[1], Len(SortedKeys(p_prop[1]))))
                   /\ p_dirty' = FALSE
                   /\ p_changed' = FALSE
                   /\ p_rc' = 0 /\ p_wrote' = TRUE
        /\ p_ret' = NULL
        /\ UNCHANGED <<p_files, p_prog, p_home, p_last>>
        /\ UNCHANGED <<vars, doexec, daemon, sigs>>

\* the properties files of a layer in the model: none, or one that gives
\* "key" the name of the layer as its value; the user's generic file may
\* also switch saving off
FilesOf(layer) ==
    {NoFile, FileOf([NoMap EXCEPT !["key"] = layer])}
    \cup (IF layer = "user" THEN {FileOf([NoMap EXCEPT !["save"] = "false"]),
                                  FileOf([NoMap EXCEPT !["key"] = layer, !["save"] = "false"])}
          ELSE {})

InitProp ==
    /\ InitCaller
    /\ \A fd \in {STDIN_FILENO, STDOUT_FILENO, STDERR_FILENO} : fds[fd] = TTY
    /\ NoDoExec /\ NoDaemon /\ NoSig
    /\ p_prog \in BOOLEAN
    /\ p_home \in BOOLEAN
    /\ p_files \in [Layers -> UNION {FilesOf(layer) : layer \in Layers}]
    /\ \A layer \in Layers :
            /\ p_files[layer] \in FilesOf(layer)
            /\ ~Tried(layer) => p_files[layer] = NoFile
    /\ p_disk = p_files["user.prog"]
    /\ p_init = FALSE
    /\ p_prop = <<>>
    /\ p_dirty = FALSE
    /\ p_call = <<"none", "">>
    /\ p_ret = NULL
    /\ p_rc = 0
    /\ p_loads = 0
    /\ p_last = [name \in Names |-> "none"]
    /\ p_changed = FALSE
    /\ p_wrote = FALSE

\* what the client sets a name to
SetValue(name) == IF name = "save" THEN "false" ELSE "v"

NextProp ==
    \/ \E name \in Names : prop_get(name)
    \/ \E name \in Names : prop_get_or(name, "d")
    \/ \E name \in Names : prop_set(name, SetValue(name))
    \/ \E name \in Names : prop_unset(name)
    \/ prop_save

SpecProp == InitProp /\ [][NextProp]_<<vars, doexec, daemon, sigs, props>>

(***************************************************************************)
(* The specifications                                                      *)
(***************************************************************************)
\* the steps that continue a call of coproc_open or coproc_close, and the
\* return of any of the four functions
PipeStep ==
    \/ coproc_open_parent
    \/ open_return
    \/ coproc_close_from
    \/ coproc_close_wait
    \/ close_return

\* the steps that continue a call of coproc_pty_open or coproc_pty_close
PtyStep ==
    \/ coproc_pty_open_fork
    \/ coproc_pty_close_wait

ChildStep(h) ==
    \/ child_attach(h)
    \/ child_do_exec(h)
    \/ prog_read(h)
    \/ prog_eof(h)
    \/ prog_write(h)
    \/ prog_sigpipe(h)

\* the calls and the other steps of a caller that uses the handles hs and
\* passes the arguments pa to coproc_open
PipeCalls(hs, pa) ==
    \/ \E h \in hs, a \in pa : coproc_open_fork(h, a)
    \/ \E h \in hs : coproc_close_to(h)
    \/ \E h \in hs : caller_write(h)
    \/ \E h \in hs : caller_read(h)
    \/ \E h \in hs : caller_close_to(h)
    \/ \E h \in hs : caller_close_from(h)

PtyCalls(hs, pa) ==
    \/ \E h \in hs, a \in pa : coproc_pty_open_check(h, a)
    \/ \E h \in hs : coproc_pty_close_master(h)
    \/ \E h \in hs : caller_close_master(h)

\* A caller that has one coprocess at a time, over pipes or over a terminal.
Next ==
    \/ PipeCalls({1}, PipeArgs)
    \/ PtyCalls({1}, PtyArgs)
    \/ PipeStep
    \/ PtyStep
    \/ \E h \in H : ChildStep(h)

Spec == Init /\ [][Next]_vars

\* the arguments of the calls of coproc_open that pass its checks
ValidPipeArgs == {a \in PipeArgs : ~NullArgument(a) /\ ~MetaArgvMismatch(HasMeta(a.cmd), a)}

\* A caller that has descriptors 0, 1 and 2 open and runs up to MaxHandles
\* coprocesses over pipes at the same time.
InitMany ==
    /\ Init
    /\ \A fd \in {STDIN_FILENO, STDOUT_FILENO, STDERR_FILENO} : fds[fd] = TTY

NextMany ==
    \/ PipeCalls(H, {a \in ValidPipeArgs : a.cmd = <<"c">>})
    \/ PipeStep
    \/ \E h \in H : ChildStep(h)

SpecMany == InitMany /\ [][NextMany]_vars

\* A caller that has descriptors 0, 1 and 2 open and one coprocess at a time
\* over pipes, and that keeps what it writes to it and what it reads from it.
NextEcho ==
    \/ \E a \in {v \in ValidPipeArgs : v.cmd = <<"c">>} : coproc_open_fork(1, a)
    \/ coproc_close_to(1)
    \/ echo_write(1)
    \/ echo_read(1)
    \/ echo_eof(1)
    \/ caller_close_to(1)
    \/ caller_close_from(1)
    \/ PipeStep
    \/ ChildStep(1)

SpecEcho == InitMany /\ [][NextEcho]_vars

\* A function that has been called runs on until it returns or blocks, and the
\* kernel schedules every process that can take a step.
FairnessMany ==
    /\ WF_vars(PipeStep)
    /\ \A h \in H : WF_vars(ChildStep(h))

Fairness == FairnessMany /\ WF_vars(PtyStep)

FairSpec == Spec /\ Fairness
FairSpecMany == SpecMany /\ FairnessMany

(***************************************************************************)
(* The claims                                                              *)
(***************************************************************************)

\* cmd contains a shell metacharacter
ContainsMeta(cmd) == \E i \in 1..Len(cmd) : cmd[i] \in SHELL_META_CHARACTERS

\* the arguments break the rule on metacharacters and argv, or a pointer that
\* the function needs is null
BreaksArgumentRule(a) ==
    \/ ~a.toNN \/ ~a.fromNN \/ ~a.nameNN \/ ~a.cmdNN
    \/ ContainsMeta(a.cmd) /\ a.argvNN
    \/ ~ContainsMeta(a.cmd) /\ ~a.argvNN

\* the function in progress has changed nothing: no descriptor, no child
NothingCreated ==
    /\ made = {}
    /\ fds = entry.fds
    /\ child[cur].st = "none"
    /\ to[cur] = entry.to /\ from[cur] = entry.from /\ masterfd[cur] = entry.masterfd

\* C1: coproc_open and coproc_pty_open return -1 with errno EINVAL, without
\* having created a pipe, a terminal or a child, when cmd has a metacharacter
\* and argv is not null, when cmd has none and argv is null, and when a pointer
\* they need is null.
C1_InvalidArguments ==
    (pc = "o_ret" /\ BreaksArgumentRule(arg))
        => (ret = -1 /\ errno = EINVAL /\ NothingCreated)

C1_Witness ==
    /\ pc = "o_ret" /\ arg.api = "pty" /\ arg.cmdNN
    /\ ~ContainsMeta(arg.cmd) /\ ~arg.argvNN
    /\ ret = -1

\* no process has an end of a pipe of handle h open
NoPipeEndOpen(h) ==
    \A p \in {"to", "from"}, e \in {"RD", "WR"} : ~Holds(End(h, p, e))

\* C2: when coproc_open fails after its checks (the first pipe(), the second
\* pipe() or fork() fails) it returns -1, there is no child, every pipe
\* descriptor it made is closed and the caller's descriptors are as before the call.
C2_FailureRollsBack ==
    (pc = "o_ret" /\ arg.api = "pipe" /\ ~BreaksArgumentRule(arg) /\ ret = -1)
        => /\ fds = entry.fds
           /\ child[cur].st = "none"
           /\ NoPipeEndOpen(cur)
           /\ to[cur] = entry.to /\ from[cur] = entry.from

C2_Witness ==
    /\ pc = "o_ret" /\ arg.api = "pipe" /\ ret = -1
    /\ made = {"to_pipe", "from_pipe"}
    /\ to_pipe # NoPair /\ from_pipe # NoPair

\* the variable role of handle h
Slot(h, role) == IF role = "to" THEN to[h] ELSE from[h]

\* C3: over all the calls of coproc_close for a handle, also after the caller
\* closed a descriptor itself and set the variable to -1, coproc_close passes
\* each descriptor of the handle to close() at most once, each time an open
\* descriptor of the handle and never -1, and the variable of a descriptor it
\* closed is -1 from then on.
C3_ClosedAtMostOnce ==
    /\ \A h \in H :
        /\ \A i \in 1..Len(closelog[h]) : closelog[h][i][2]
        /\ \A i, j \in 1..Len(closelog[h]) : closelog[h][i][1] = closelog[h][j][1] => i = j
        /\ \A i \in 1..Len(closelog[h]) :
                closelog[h][i][1] \in {"to", "from"} => Slot(h, closelog[h][i][1]) = -1

C3_Witness ==
    /\ pc = "c_ret" /\ api[cur] = "pipe"
    /\ entry.to = -1 /\ entry.from = -1
    /\ closelog[cur] = <<<<"from", TRUE>>>>

\* C4: when coproc_close calls waitpid, the descriptors of the handle that were
\* open when it was called are closed.
C4_ClosedBeforeWait ==
    (pc = "c_wait")
        => /\ entry.to # -1 => fds[entry.to] = NONE
           /\ entry.from # -1 => fds[entry.from] = NONE
           /\ \A fd \in FD : fds[fd] \notin {OwnEnd(cur, "to"), OwnEnd(cur, "from")}

C4_Witness ==
    /\ pc = "c_wait" /\ entry.to # -1 /\ entry.from # -1
    /\ child[cur].st = "running" /\ child[cur].hold # <<>>

\* C5: coproc_close returns in the end: a coprocess that ends when it reads
\* end-of-stream and when a write fails does end once coproc_close has closed
\* both descriptors, also when it is blocked in a write to a full pipe.
C5_CloseReturns == (pc = "c_wait") ~> (pc = "c_ret")

\* C6: coproc_open and then coproc_close, with nothing done with the handle in
\* between: when coproc_close returns, it returns the status the child ended
\* with, the child is reaped and both variables are -1 and their descriptors closed.
C6_OpenThenClose ==
    (pc = "c_ret" /\ entry.fresh)
        => /\ waited[1] = "reaped" /\ ret = waited[2] /\ ret # -1
           /\ child[cur].st = "none"
           /\ to[cur] = -1 /\ from[cur] = -1
           /\ fds[entry.to] = NONE /\ fds[entry.from] = NONE

C6_Witness ==
    /\ pc = "c_ret" /\ entry.fresh
    /\ waited = <<"reaped", ExitStatus(0)>>

\* C7: coproc_close returns the status waitpid stored; it does not call waitpid
\* and returns 0 when pid is -1; it returns -1 when waitpid fails; and in each
\* case the descriptors are closed and the variables are -1.
C7_CloseResult ==
    (pc = "c_ret")
        => /\ (pid[cur] = -1) <=> (waited[1] = "skipped")
           /\ waited[1] \in {"skipped", "failed", "reaped"}
           /\ waited[1] = "skipped" => ret = 0
           /\ waited[1] = "failed" => ret = -1
           /\ waited[1] = "reaped" => ret = waited[2]
           /\ to[cur] = -1 /\ from[cur] = -1
           /\ entry.to # -1 => fds[entry.to] = NONE
           /\ entry.from # -1 => fds[entry.from] = NONE

C7_Witness ==
    /\ pc = "c_ret" /\ waited[1] = "failed" /\ ret = -1
    /\ entry.to = -1 /\ entry.from = -1

\* the descriptors of table tab that are ends of the pipes of handle h
PipeDescriptors(tab, h) ==
    {fd \in FD : tab[fd][1] = h /\ tab[fd][2] \in {"to", "from"}}

\* C8: when coproc_open succeeds it returns the process id of the child, and in
\* the caller two of the four pipe ends are open: *to is the write end of the
\* inbound pipe and *from is the read end of the outbound pipe.
C8_ParentEnds ==
    (pc = "o_ret" /\ arg.api = "pipe" /\ ret # -1)
        => /\ ret = PidOf(cur) /\ child[cur].st # "none"
           /\ to[cur] \in FD /\ from[cur] \in FD /\ to[cur] # from[cur]
           /\ fds[to[cur]] = End(cur, "to", "WR")
           /\ fds[from[cur]] = End(cur, "from", "RD")
           /\ PipeDescriptors(fds, cur) = {to[cur], from[cur]}

C8_Witness ==
    /\ pc = "o_ret" /\ arg.api = "pipe" /\ ret # -1
    /\ to[cur] = STDOUT_FILENO /\ from[cur] = STDERR_FILENO

\* C9: when the child of coproc_open enters do_exec, descriptor 0 is the read
\* end of the inbound pipe, descriptors 1 and 2 are the write end of the
\* outbound pipe, and no other descriptor of the child is an end of these pipes.
C9_ChildDescriptors ==
    \A h \in H :
        (child[h].st = "exec" /\ child[h].via = "pipe")
            => /\ child[h].tab[STDIN_FILENO] = End(h, "to", "RD")
               /\ child[h].tab[STDOUT_FILENO] = End(h, "from", "WR")
               /\ child[h].tab[STDERR_FILENO] = End(h, "from", "WR")
               /\ PipeDescriptors(child[h].tab, h)
                    = {STDIN_FILENO, STDOUT_FILENO, STDERR_FILENO}

C9_Witness ==
    /\ pc = "o_parent" /\ At(to_pipe, RD) = STDIN_FILENO /\ At(to_pipe, WR) = STDERR_FILENO
    /\ child[cur].st = "exec"

\* C10: the child of coproc_open and of coproc_pty_open ends in the new image
\* or in _exit: it never goes on in the code of the caller; after a dup2 that
\* failed it makes no execve attempt; and when it ends without a new image it
\* ends with the failure status.
C10_ChildNeverReturns ==
    \A h \in H :
        /\ child[h].st \in {"none", "forked", "exec", "running", "exited"}
        /\ child[h].st = "running" => child[h].image = "program"
        /\ child[h].dupfailed => (child[h].st = "exited" /\ child[h].execs = 0)
        /\ (child[h].st = "exited" /\ child[h].image = "caller")
                => /\ child[h].exit = ExitStatus(EXIT_FAILURE)
                   /\ child[h].dupfailed \/ child[h].execs >= 1

\* the child of handle h has ended in the image of the caller after do_exec
FailedReplacement(h) ==
    child[h].st = "exited" /\ child[h].image = "caller" /\ child[h].execs >= 1

\* C11: coproc_open returns the process id of the child, and leaves errno as
\* it was, also when the replacement of the child's image has failed by then;
\* and the coproc_close that reaps a child whose replacement failed returns
\* the wait status of that child, which is neither 0 nor -1.
C11_FailureSeenAtClose ==
    /\ [](\A h \in H :
            (pc = "o_ret" /\ arg.api = "pipe" /\ cur = h /\ FailedReplacement(h))
                => (ret = PidOf(h) /\ ret # -1 /\ errno = NOERR))
    /\ [][\A h \in H :
            (pc = "c_wait" /\ cur = h /\ pid[h] # -1 /\ FailedReplacement(h) /\ pc' = "c_ret")
                => (ret' = child[h].exit /\ ret' \notin {0, -1})]_vars

C11_Witness ==
    /\ pc = "o_ret" /\ arg.api = "pipe" /\ ret = PidOf(cur)
    /\ FailedReplacement(cur) /\ child[cur].exit = ExitStatus(EXIT_FAILURE)

\* cmd contains a path separator
ContainsSlash(cmd) == \E i \in 1..Len(cmd) : cmd[i] = "/"

\* the strategy the rule on metacharacters and path separators gives for cmd
RuleStrategy(cmd) ==
    IF ContainsMeta(cmd) THEN "ShellInvocation"
    ELSE IF ContainsSlash(cmd) THEN "DirectReplacement"
    ELSE "PathSearch"

\* the execve calls and the positions in do_exec that belong to a strategy
SitesOf(strategy) ==
    CASE strategy = "ShellInvocation" -> {"shell"}
      [] strategy = "DirectReplacement" -> {"direct", "direct_fallback"}
      [] strategy = "PathSearch" -> {"search", "search_fallback"}
PositionsOf(strategy) ==
    CASE strategy = "ShellInvocation" -> {}
      [] strategy = "DirectReplacement" -> {"direct_shargv"}
      [] strategy = "PathSearch" -> {"search", "search_shargv"}
Ended == {"replaced", "returned", "killed"}

\* C12: every execve call of a spawn, and every position do_exec is at, belongs
\* to one strategy, which is shell invocation if and only if cmd contains a
\* shell metacharacter, otherwise direct replacement if and only if cmd
\* contains a path separator, and otherwise path search.
C12_OneStrategy ==
    /\ \A i \in 1..Len(x_log) : x_log[i].site \in SitesOf(RuleStrategy(x_cmd))
    /\ x_pc \in {"none", "entry"} \cup Ended \cup PositionsOf(RuleStrategy(x_cmd))

C12_Witness ==
    /\ x_pc = "returned" /\ Len(x_log) = 2
    /\ x_log[1].site = "direct" /\ x_log[2].site = "direct_fallback"

\* C13: for a command with a shell metacharacter do_exec makes one execve
\* call and no other: /bin/sh with the three arguments "sh", "-c" and cmd
\* unchanged.
C13_ShellTriple ==
    (x_pc # "none" /\ ContainsMeta(x_cmd)) =>
        /\ x_pc = "entry" => x_log = <<>>
        /\ x_pc # "entry" =>
            /\ Len(x_log) = 1
            /\ x_log[1].file = <<"/", "b", "i", "n", "/", "s", "h">>
            /\ x_log[1].argv = Ptr(<< <<"s", "h">>, <<"-", "c">>, x_cmd >>)

C13_Witness ==
    /\ x_pc = "returned" /\ ContainsMeta(x_cmd) /\ Len(x_log) = 1
    /\ x_log[1].argv.v[3] = <<"c", "|", "c">>

\* the elements of argv behind argv[0]
ArgvTail(v) == [i \in 1..(Len(v) - 1) |-> v[i + 1]]

\* C14: each retry after an unrecognised executable runs /bin/sh with the
\* vector (/bin/sh, the path of the attempt before it, argv[1], argv[2], ...).
C14_FallbackVector ==
    \A i \in 1..Len(x_log) :
        x_log[i].site \in {"direct_fallback", "search_fallback"} =>
            /\ i > 1 /\ x_log[i - 1].r = ENOEXEC
            /\ x_log[i].file = BinSh
            /\ x_log[i].argv = Ptr(<<BinSh, x_log[i - 1].file>> \o ArgvTail(x_argv.v))

\* the segments of a search path: what is between its separators
RECURSIVE Split(_)
Split(str) ==
    IF \E i \in 1..Len(str) : str[i] = ":"
    THEN LET k == CHOOSE i \in 1..Len(str) : str[i] = ":" /\ \A j \in 1..(i - 1) : str[j] # ":"
         IN  <<SubSeq(str, 1, k - 1)>> \o Split(SubSeq(str, k + 1, Len(str)))
    ELSE <<str>>

\* the search path the rule gives
RulePath ==
    IF ~x_env.null THEN x_env.v
    ELSE IF x_euid = 0 THEN DEFAULT_ROOT_PATH ELSE DEFAULT_USER_PATH

\* the candidates of the search, in the order of the segments
Candidates ==
    LET segs == Split(RulePath)
    IN  [i \in 1..Len(segs) |-> IF segs[i] = <<>> THEN x_cmd ELSE segs[i] \o <<"/">> \o x_cmd]

\* the candidates that fit a buffer of 512 bytes with their terminator
FitsBuffer(str) == Len(str) + 1 <= 512
Fitting == SelectSeq(Candidates, FitsBuffer)

\* the files of the execve calls of the search, in the order of the calls
IsSearch(a) == a.site = "search"
Searched == LET calls == SelectSeq(x_log, IsSearch) IN [i \in 1..Len(calls) |-> calls[i].file]

InSearch == x_pc # "none" /\ RuleStrategy(x_cmd) = "PathSearch"

\* C15: the files the search tries are, in this order, the candidates of the
\* segments of the search path that fit the buffer, or the first of them;
\* the search path is PATH when it is set, "/bin:/usr/bin" for the superuser
\* and ":/bin:/usr/bin" for another user when it is not.
C15_CandidateOrder ==
    InSearch =>
        /\ Len(Searched) <= Len(Fitting)
        /\ Searched = SubSeq(Fitting, 1, Len(Searched))
        /\ x_pc \in {"search", "search_shargv"} \cup Ended => x_path = RulePath

C15_Witness ==
    /\ x_pc = "returned" /\ x_env.null /\ x_euid # 0 /\ x_cmd = <<"c">>
    /\ Searched = << <<"c">>, <<"/", "b", "i", "n", "/", "c">>,
                     <<"/", "u", "s", "r", "/", "b", "i", "n", "/", "c">> >>

\* C16: after an execve call of the search that fails with EACCES the search
\* goes on: the next call is the one for the next candidate, and do_exec
\* returns only when no candidate is left.
C16_PermissionDeniedContinues ==
    InSearch =>
        \A i \in 1..Len(x_log) :
            (x_log[i].site = "search" /\ x_log[i].r = EACCES) =>
                /\ i = Len(x_log) => x_pc \in {"search", "returned"}
                /\ (i = Len(x_log) /\ x_pc = "returned") => i = Len(Fitting)
                /\ i < Len(x_log) =>
                    x_log[i + 1].site = "search" /\ x_log[i + 1].file = Fitting[i + 1]

C16_Witness ==
    /\ Len(x_log) = 2 /\ x_log[1].site = "search" /\ x_log[1].r = EACCES
    /\ x_log[2].site = "search" /\ x_log[2].r = "ok" /\ x_pc = "replaced"

\* C17: an execve call of the search that fails with ENOEXEC is followed by
\* exactly one call of /bin/sh and by no other call, whatever that call gives.
C17_OneFallback ==
    InSearch =>
        \A i \in 1..Len(x_log) :
            (x_log[i].site = "search" /\ x_log[i].r = ENOEXEC) =>
                /\ i = Len(x_log) => x_pc = "search_shargv"
                /\ i < Len(x_log) =>
                    /\ Len(x_log) = i + 1
                    /\ x_log[i + 1].site = "search_fallback"
                    /\ x_log[i + 1].file = BinSh
                    /\ x_pc \in {"replaced", "returned"}

\* C18 as stated: an execve call of the search that fails with an error other
\* than EACCES and ENOEXEC is the last call, and the search is over.
C18_OtherFailureStops ==
    InSearch =>
        \A i \in 1..Len(x_log) :
            (x_log[i].site = "search" /\ x_log[i].r \notin {"ok", EACCES, ENOEXEC}) =>
                i = Len(x_log) /\ x_pc = "returned"

\* C18: after an execve call of the search that fails with an error other
\* than EACCES and ENOEXEC the search goes on as it does after EACCES: the
\* next call is the one for the next candidate, and do_exec returns only when
\* no candidate is left.
C18_OtherFailureContinues ==
    InSearch =>
        \A i \in 1..Len(x_log) :
            (x_log[i].site = "search" /\ x_log[i].r \notin {"ok", EACCES, ENOEXEC}) =>
                /\ i = Len(x_log) => x_pc \in {"search", "returned"}
                /\ (i = Len(x_log) /\ x_pc = "returned") => i = Len(Fitting)
                /\ i < Len(x_log) =>
                    x_log[i + 1].site = "search" /\ x_log[i + 1].file = Fitting[i + 1]

C18_Witness ==
    /\ Len(x_log) = 2 /\ x_log[1].site = "search" /\ x_log[1].r = ENOENT
    /\ x_log[2].site = "search" /\ x_pc = "returned"

\* C19: no execve call is made for a candidate that does not fit the buffer,
\* and the candidates behind it are tried: a search that ends without a call
\* that succeeded or failed with ENOEXEC has tried every candidate that fits.
C19_LongCandidateSkipped ==
    InSearch =>
        /\ \A i \in 1..Len(Searched) :
            \E k \in 1..Len(Candidates) : Searched[i] = Candidates[k] /\ Len(Candidates[k]) < 512
        /\ (x_pc = "returned" /\ \A i \in 1..Len(x_log) : x_log[i].r \in {EACCES, ENOENT}) =>
                Len(Searched) = Len(Fitting)

C19_Witness ==
    /\ x_pc = "returned" /\ x_cmd = LongCmd /\ x_path = <<"a", "a", ":">>
    /\ Len(x_log) = 1 /\ x_log[1].file = LongCmd

\* C20: coproc_pty_open with a buffer for the name of less than 64 bytes
\* returns -1 with errno EINVAL; it does not get as far as pty_fork, there is
\* no child, and the descriptors and the variables of the caller are as before.
C20_SmallNameBuffer ==
    (arg.api = "pty" /\ arg.size < 64)
        => /\ pc = "o_ret"
           /\ ret = -1 /\ errno = EINVAL
           /\ made = {} /\ fds = entry.fds /\ child[cur].st = "none"
           /\ masterfd[cur] = entry.masterfd

C20_Witness ==
    /\ pc = "o_ret" /\ arg.api = "pty" /\ arg.size = 63
    /\ arg.toNN /\ arg.nameNN /\ arg.cmdNN /\ ret = -1


(***************************************************************************)
(* Release of the terminal, the echo coprocess, ownership of descriptors,  *)
(* a second close, the result of coproc_pty_open                           *)
(***************************************************************************)

\* C21: pty_release is called exactly once for each successful coproc_pty_open:
\* never more than once, and once when coproc_pty_close returns, whether or not
\* the caller has closed the master side and set masterfd to -1 before.
C21_ReleasedOnce ==
    \A h \in H :
        /\ Len(released[h]) <= 1
        /\ (pc = "q_ret" /\ cur = h /\ api[h] = "pty") => Len(released[h]) = 1

\* C22: when pty_release fails in coproc_pty_close, coproc_pty_close returns -1,
\* as it does when waitpid fails.
C22_ReleaseFailureReported ==
    (pc = "q_ret" /\ entry.masterfd # -1 /\ released[cur] # <<>>
                  /\ released[cur][Len(released[cur])] = -1)
        => ret = -1

\* s is an initial part of t
IsPrefix(s, t) == Len(s) <= Len(t) /\ SubSeq(t, 1, Len(s)) = s

C24_NoForeignEnds ==
    \A h \in H, k \in H :
        k # h => \A fd \in FD :
                    child[k].tab[fd] \notin {End(h, "to", "WR"), End(h, "from", "RD")}

\* A close function is about to return, the child of the handle was reaped by
\* an earlier call, and the caller passed the same pid again.
SecondClose ==
    /\ pc \in {"c_ret", "q_ret"}
    /\ pid[cur] # -1 /\ child[cur].st = "none" /\ waited[1] # "reaped"
    /\ entry.to = -1 /\ entry.from = -1 /\ entry.masterfd = -1

\* C25 as stated: a second close with the same pid and descriptors changes
\* nothing and does not fail.
C25_SecondCloseSucceeds ==
    SecondClose => fds = entry.fds /\ ret # -1

\* C25: a second close with the same pid and descriptors closes nothing and
\* leaves the variables at -1, and it fails: waitpid finds no child, and the
\* function returns -1 with errno ECHILD.
C25_SecondCloseFails ==
    SecondClose
        => /\ fds = entry.fds
           /\ to[cur] = -1 /\ from[cur] = -1 /\ masterfd[cur] = -1
           /\ waited[1] = "failed" /\ ret = -1 /\ errno = ECHILD

C25_Witness ==
    SecondClose /\ pc = "q_ret" /\ api[cur] = "pty" /\ ret = -1 /\ errno = ECHILD

C26_NoAllocation ==
    x_heap = <<>>

(***************************************************************************)
(* The pidfile of a daemon                                                 *)
(***************************************************************************)

\* C28: no two processes that are alive have both had daemon_init with the
\* same name return 0 (and not called daemon_close since).
C28_OneInstance ==
    \A p \in DP, q \in DP :
        (p # q) => ~(d_pc[p] = "running" /\ d_pc[q] = "running")

\* C29: after daemon_init succeeded in a process, the file it locked holds
\* exactly one line, the process id of that process.
C29_OneLine ==
    \A p \in DP :
        d_pc[p] = "running" => d_content[d_fd[p]] = PidLine(getpid(p))

(***************************************************************************)
(* Deferred signal handling                                                *)
(***************************************************************************)

\* signal_handle_all has gone through the signals, or the process was killed
\* on the way
PassOver == s_via = "all" /\ s_pc \in {"done", "killed"}

\* C30: in one pass of signal_handle_all the handler of the client is invoked
\* once for each signal whose count is not zero and not at all for a signal
\* whose count is zero; the count of a signal that was handled is zero after
\* the reset; and the counts are the numbers of receipts since the last reset.
\* (Stated for runs in which every signal number passed was in range.)
C30_HandledOnce ==
    s_oob = {} =>
        \A signo \in Signals :
            /\ s_calls[signo] <= 1
            /\ s_tested[signo] = "none" => s_calls[signo] = 0
            /\ (PassOver /\ g_handler[signo] = ClientHandler
                         /\ \/ s_tested[signo] = "received"
                            \/ s_tested[signo] = "no" /\ g_received[signo] # 0)
                  => s_calls[signo] = 1
            /\ (s_pc = "unblock" /\ s_signo = signo) => g_received[signo] = 0
            /\ g_received[signo] = s_since[signo]

(***************************************************************************)
(* The accesses of new_shargv, the length of the path search               *)
(***************************************************************************)

\* C35: when do_exec calls new_shargv, new_shargv reads no element of argv
\* behind its terminator and writes no element of shargv outside the
\* nargs + 2 slots it allocated, whatever lies behind argv.
C35_WithinBounds ==
    x_pc \in {"direct_shargv", "search_shargv"} =>
        \A b \in Beyond :
            /\ ArgvReads(x_argv.v, b) \subseteq 0..Len(x_argv.v)
            /\ ShargvWrites(x_argv.v, b) \subseteq ShargvSlots(x_argv.v)

\* the number of separators in a search path
Separators(str) == Cardinality({i \in 1..Len(str) : str[i] = ":"})

\* the positions at which the segments of a search path start
SegmentStarts(str) == {1} \cup {i + 1 : i \in {j \in 1..Len(str) : str[j] = ":"}}

IsFallback(a) == a.site \in {"direct_fallback", "search_fallback"}

\* C36: the path search ends, whatever the search path is.  On the way the
\* loop is at the start of a segment, it has made at most one execve call for
\* each segment before that one, so at most as many as there are separators
\* plus one, and at most one call of /bin/sh.
C36_SearchTerminates ==
    /\ [](InSearch =>
            /\ Cardinality(SegmentStarts(RulePath)) = Separators(RulePath) + 1
            /\ x_pc = "search" => x_s \in SegmentStarts(x_path)
            /\ x_pc = "search" =>
                    Len(Searched) <= Cardinality({k \in SegmentStarts(x_path) : k < x_s})
            /\ Len(Searched) <= Separators(RulePath) + 1
            /\ Len(SelectSeq(x_log, IsFallback)) <= 1)
    /\ <>(x_pc \in Ended)

C36_Witness ==
    /\ x_pc = "returned" /\ ~x_env.null /\ x_env.v = <<":", ":">>
    /\ Len(Searched) = 3 /\ Len(x_log) = 3

(***************************************************************************)
(* The sig module and the signal numbers it is given                       *)
(***************************************************************************)

\* the client calls a function of the module with signo as a signal number
CalledWith(signo) ==
    \/ \E handler \in {SIG_DFL, SIG_IGN, ClientHandler} : signal_set_handler(signo, handler)
    \/ \E other \in SigArgs : signal_addset(signo, other) \/ signal_addset(other, signo)
    \/ signal_received(signo)
    \/ signal_raise(signo)
    \/ signal_handle(signo)

\* C31: a call of a function of the module with a signal number that is out
\* of range returns -1 with errno EINVAL, and it neither reads nor writes the
\* table of handlers or the table of counts.
C31_RangeChecked ==
    [][\A signo \in SigArgs :
            (OutOfRange(signo) /\ CalledWith(signo)) =>
                /\ s_ret' = 0 - 1 /\ s_errno' = EINVAL
                /\ s_pc' = s_pc
                /\ s_oob' = s_oob
                /\ UNCHANGED <<g_handler, g_mask, g_received>>]_sigs

\* the handler is about to be invoked, or has returned and the count is not
\* yet reset
AroundHandler == s_pc \in {"call", "reset"}

\* C37: while signal_handle handles a signal whose handler the client
\* installed, the signal is blocked from before the handler is invoked until
\* the count is reset; the count that the reset erases is the count from
\* before the handler started; and a signal that arrives meanwhile is counted
\* after the reset, when the mask is restored.
C37_NoReceiptErased ==
    /\ []((AroundHandler /\ Catches(s_signo)) => s_signo \in s_mask)
    /\ [][/\ (s_pc = "call" /\ Catches(s_signo)) =>
                g_received'[s_signo] = g_received[s_signo]
          /\ (s_pc = "reset" /\ Catches(s_signo)) =>
                g_received'[s_signo] \in {g_received[s_signo], 0}
          /\ (s_pc = "unblock" /\ Catches(s_signo)) =>
                IF s_pc' = "unblock"
                THEN g_received'[s_signo] = 0 /\ s_pending \subseteq s_pending'
                ELSE g_received'[s_signo] = (IF s_signo \in s_pending THEN 1 ELSE 0)]_sigs
    /\ [](\A signo \in Signals : g_received[signo] = s_since[signo])

\* C37, its case: the signal arrived while its handler ran, the count has been
\* reset, and the signal is still pending
C37_Witness ==
    /\ s_pc = "unblock" /\ Catches(s_signo)
    /\ s_calls[s_signo] = 1
    /\ s_signo \in s_pending
    /\ g_received[s_signo] = 0

\* C38: the function that signal_handle invokes is a handler of the client
\* that signal_set_handler installed, never SIG_DFL (a null pointer) and
\* never SIG_IGN.
C38_OnlyClientHandlers ==
    s_pc = "call" => g_handler[s_signo] = ClientHandler

(***************************************************************************)
(* daemon_init, daemon_close and the mutex of the module                   *)
(***************************************************************************)

\* C39: no process is ever at a pthread_mutex_lock(&g.lock) while its thread
\* holds g.lock, or blocked in one, so that daemon_init returns also when the
\* write to the pidfile fails.
C39_NoRelock ==
    \A p \in DP : d_pc[p] \notin {"relock", "hung"}

\* daemon_init has returned -1 in p because another process held the lock
Refused(p) == d_pc[p] \in {"refused", "refused_closed"}

\* C40: a daemon_init that fails because another process holds the lock on
\* the pidfile changes neither what the path names nor the content of a file,
\* it leaves g.pidfile null, and daemon_close in that process afterwards
\* changes neither the path nor a file.
C40_RefusedLeavesPidfile ==
    /\ [](\A p \in DP : Refused(p) => ~d_pidfile[p])
    /\ [][\A p \in DP :
            /\ (d_pc[p] = "lock" /\ d_pc'[p] = "refused") => UNCHANGED <<d_path, d_content, d_lock>>
            /\ (d_pc[p] = "refused" /\ d_pc'[p] = "refused_closed") =>
                    UNCHANGED <<d_path, d_content, d_lock>>]_daemon

\* C40, its case: p was refused and has called daemon_close, and the instance
\* q that holds the lock runs on with its pidfile in place
C40_Witness ==
    \E p \in DP, q \in DP :
        /\ d_pc[p] = "refused_closed" /\ d_pc[q] = "running"
        /\ d_fd[p] = d_fd[q] /\ d_path = d_fd[q] /\ d_lock[d_path] = q
        /\ d_content[d_path] = PidLine(getpid(q))

(***************************************************************************)
(* The properties: layers, set and unset, save                             *)
(***************************************************************************)

\* the layers from the most specific to the most generic
BySpecificity == <<"user.prog", "system.prog", "user", "system">>

\* the value of name in the first of the given layers whose file defines it
RECURSIVE FirstDefined(_, _)
FirstDefined(layers, name) ==
    IF layers = <<>> THEN NULL
    ELSE IF p_files[Head(layers)].exists /\ p_files[Head(layers)].map[name] # NULL
    THEN p_files[Head(layers)].map[name]
    ELSE FirstDefined(Tail(layers), name)

C33_SetUnsetGet ==
    /\ (p_call[1] = "prop_set" /\ p_ret # NULL) => p_ret = p_last[p_call[2]]
    /\ (p_call[1] \in {"prop_get", "prop_get_or"} /\ p_last[p_call[2]] \in Values) =>
            p_ret = p_last[p_call[2]]
    /\ (p_call[1] = "prop_get" /\ p_last[p_call[2]] = "unset") => p_ret = NULL
    /\ (p_call[1] = "prop_get_or" /\ p_last[p_call[2]] = "unset") => p_ret = "d"

\* C33, its case: a generic file defines the name, the name was unset, another
\* name was set afterwards or before, and prop_get_or has returned its default
C33_Witness ==
    /\ p_call = <<"prop_get_or", "key">> /\ p_ret = "d"
    /\ p_last["key"] = "unset" /\ p_last["other"] = "v"
    /\ p_files["system"].exists /\ p_files["system"].map["key"] = "system"
    /\ p_files["user.prog"].exists

\* C34: a prop_save opens the file for writing only when a property was
\* added, changed or removed since the files were loaded or since the last
\* save that succeeded, and the property "save" is not false; and a prop_save
\* that comes right after a prop_save that wrote the file and returned 0
\* writes nothing and returns 0.
C34_SaveOnlyWhenChanged ==
    [][p_call'[1] = "prop_save" =>
            /\ p_wrote' => (p_changed /\ Lookup(p_prop, "save") # "false")
            /\ (p_call[1] = "prop_save" /\ p_wrote /\ p_rc = 0) => (~p_wrote' /\ p_rc' = 0)]_props

=============================================================================
